---- MODULE Spec2Model ----
(***************************************************************************)
(* Model of the CMake File API consumer (parseFileAPI) and of the Visual   *)
(* Studio detector (getDefaultVSGenerator and friends) of the Deno JUCE    *)
(* project generator.                                                      *)
(*                                                                         *)
(* Strings the code inspects character by character (file names, paths)    *)
(* are sequences of one-character strings; POSIX path semantics.           *)
(***************************************************************************)
EXTENDS Integers, Sequences, FiniteSets, TLC

VARIABLES
    \* ---- the build directory on disk (reply directory of the File API)
    replyDirExists,   \* does <buildDir>/.cmake/api/v1/reply exist
    fsFiles,          \* relative path (sequence of names) |-> document
    fsDirs,           \* relative paths of the directories under the reply dir
    \* ---- one parseFileAPI call (locals of the async function)
    pc,               \* position of the call: the await it is suspended at
    indexPath,        \* const indexPath
    codemodelPath,    \* const codemodelPath
    codemodel,        \* const codemodel
    ci, ti,           \* position of the two nested for-of loops
    artifacts,        \* const artifacts: BuildArtifact[]
    reads,            \* I/O operations performed by the current call, in order
    outcome,          \* how the last finished call ended
    prev,             \* how the call before it ended
    changedBetween,   \* was the directory changed between those two calls
    dirty,            \* was the directory changed since the last call started
    \* ---- artifact path computation on its own (lines 312-321)
    cwd, buildRoot, declaredPath,
    fullPath,         \* the path computed, <<>> before that

    \* ---- Visual Studio detector
    vsHost, vsCall, vsProbes, vsSpawned, vsWarnings, vsOutcome,

    \* ---- project generator: the names derived from --name
    projectName,      \* const projectName, a sequence of characters
    derived,          \* the converted names, None before the conversion

    \* ---- project generator: one run of generateProject of the JUCE generator
    genPc,            \* position of the run: the await it is suspended at
    genConfig,        \* config: JucePluginConfig (the fields that steer the run)
    genEnv,           \* what git and the file system will do when asked
    genRoot,          \* what lies at config.outputDir: "missing", "dir" or "file"
    genDisk,          \* relative paths of what lies under config.outputDir
    genNext,          \* position in the list of directories or files to create
    genBanner,        \* has the success banner been printed
    genExitCode       \* the code given to Deno.exit, -1 if it was not called

fsVars   == <<replyDirExists, fsFiles, fsDirs>>
callVars == <<pc, indexPath, codemodelPath, codemodel, ci, ti, artifacts, reads, outcome, prev,
              changedBetween, dirty>>
pathVars == <<cwd, buildRoot, declaredPath, fullPath>>
vsVars   == <<vsHost, vsCall, vsProbes, vsSpawned, vsWarnings, vsOutcome>>
caseVars == <<projectName, derived>>
genVars  == <<genPc, genConfig, genEnv, genRoot, genDisk, genNext, genBanner, genExitCode>>
vars     == <<fsVars, callVars, pathVars, vsVars, caseVars, genVars>>

None == [none |-> TRUE]

(***************************************************************************)
(* Strings as character sequences                                          *)
(***************************************************************************)

\* UTF-16 code unit of the characters the model uses (String.prototype order).
Code(c) ==
    CASE c = "-" -> 45 [] c = "." -> 46 [] c = "/" -> 47
      [] c = "0" -> 48 [] c = "1" -> 49 [] c = "2" -> 50 [] c = "9" -> 57
      [] c = "\\" -> 92
      [] c = "a" -> 97 [] c = "b" -> 98 [] c = "c" -> 99 [] c = "d" -> 100
      [] c = "e" -> 101 [] c = "i" -> 105 [] c = "j" -> 106 [] c = "k" -> 107
      [] c = "l" -> 108 [] c = "m" -> 109 [] c = "n" -> 110 [] c = "o" -> 111
      [] c = "p" -> 112 [] c = "r" -> 114 [] c = "s" -> 115 [] c = "t" -> 116
      [] c = "u" -> 117 [] c = "v" -> 118 [] c = "w" -> 119 [] c = "x" -> 120
      [] c = "y" -> 121

\* a < b in the order Array.prototype.sort() uses without a comparator
RECURSIVE StrLess(_, _)
StrLess(a, b) ==
    IF b = <<>> THEN FALSE
    ELSE IF a = <<>> THEN TRUE
    ELSE IF Head(a) # Head(b) THEN Code(Head(a)) < Code(Head(b))
    ELSE StrLess(Tail(a), Tail(b))

StartsWith(s, p) == Len(s) >= Len(p) /\ SubSeq(s, 1, Len(p)) = p
EndsWith(s, p) == Len(s) >= Len(p) /\ SubSeq(s, Len(s) - Len(p) + 1, Len(s)) = p

\* str.replace(/\\/g, "/")
ReplaceBackslashes(s) == [i \in 1..Len(s) |-> IF s[i] = "\\" THEN "/" ELSE s[i]]

\* str.split("/")
RECURSIVE SplitSlash(_, _, _)
SplitSlash(s, cur, acc) ==
    IF s = <<>> THEN Append(acc, cur)
    ELSE IF Head(s) = "/" THEN SplitSlash(Tail(s), <<>>, Append(acc, cur))
    ELSE SplitSlash(Tail(s), Append(cur, Head(s)), acc)

\* parts.join("/")
RECURSIVE JoinSlash(_)
JoinSlash(parts) ==
    IF parts = <<>> THEN <<>>
    ELSE IF Len(parts) = 1 THEN parts[1]
    ELSE parts[1] \o <<"/">> \o JoinSlash(Tail(parts))

DotDot == <<".", ".">>

\* normalizeString of @std/path: resolves "." and ".." segments
RECURSIVE NormalizeSegments(_, _, _)
NormalizeSegments(segs, res, allowAboveRoot) ==
    IF segs = <<>> THEN res
    ELSE LET s == Head(segs) IN
         IF s = <<>> \/ s = <<".">>
         THEN NormalizeSegments(Tail(segs), res, allowAboveRoot)
         ELSE IF s = DotDot
         THEN IF res # <<>> /\ res[Len(res)] # DotDot
              THEN NormalizeSegments(Tail(segs), SubSeq(res, 1, Len(res) - 1), allowAboveRoot)
              ELSE IF allowAboveRoot
              THEN NormalizeSegments(Tail(segs), Append(res, s), allowAboveRoot)
              ELSE NormalizeSegments(Tail(segs), res, allowAboveRoot)
         ELSE NormalizeSegments(Tail(segs), Append(res, s), allowAboveRoot)

\* posix normalize of @std/path
Normalize(path) ==
    IF path = <<>> THEN <<".">>
    ELSE LET isAbsolute == path[1] = "/"
             trailingSeparator == path[Len(path)] = "/"
             body == JoinSlash(NormalizeSegments(SplitSlash(path, <<>>, <<>>), <<>>, ~isAbsolute))
             dotted == IF body = <<>> /\ ~isAbsolute THEN <<".">> ELSE body
             trailed == IF dotted # <<>> /\ trailingSeparator THEN dotted \o <<"/">> ELSE dotted
         IN IF isAbsolute THEN <<"/">> \o trailed ELSE trailed

\* posix join of @std/path
Join(paths) ==
    LET nonEmpty == SelectSeq(paths, LAMBDA p : p # <<>>)
        joined == JoinSlash(nonEmpty)
    IN IF joined = <<>> THEN <<".">> ELSE Normalize(joined)


(***************************************************************************)
(* Bounds of the model                                                     *)
(***************************************************************************)
MaxIndexFiles == 2   \* index-*.json files in a reply directory
MaxArtifacts == 2    \* entries of a target's `artifacts` list
MaxConfigs == 2      \* configurations of a code model
MaxPathLen == 4      \* characters of a declared artifact path (path computation)
MaxInstalls == 2     \* Visual Studio directories present on the host
MaxInstances == 2    \* instance blocks in the output of vswhere.exe

(***************************************************************************)
(* The reply directory and its documents                                   *)
(***************************************************************************)

\* parseFileAPI("build") in the build script; one letter stands for the name
BuildDir == <<"b">>

\* join(buildDir, ".cmake", "api", "v1", "reply")
ReplyDir ==
    Join(<<BuildDir, <<".", "c", "m", "a", "k", "e">>, <<"a", "p", "i">>, <<"v", "1">>,
           <<"r", "e", "p", "l", "y">>>>)

IndexPrefix == <<"i", "n", "d", "e", "x", "-">>
JsonSuffix == <<".", "j", "s", "o", "n">>

\* names CMake gives its index files: index-<sortable stamp>.json
IndexNames ==
    { IndexPrefix \o stem \o JsonSuffix : stem \in {<<"1">>, <<"1", "0">>, <<"2">>} }

\* entries that must not be taken for an index file
DirNamedLikeIndex == <<IndexPrefix \o <<"9">> \o JsonSuffix>>
SubDir == <<<<"s", "u", "b">>>>
IndexInSubDir == <<<<"s", "u", "b">>, IndexPrefix \o <<"9">> \o JsonSuffix>>
NotJson == <<IndexPrefix \o <<"9">> \o <<".", "t", "x", "t">>>>
NotIndexPrefixed == <<<<"x">> \o IndexPrefix \o <<"9">> \o JsonSuffix>>
Distractors == {"dir", "nested", "names"}

CmA == <<"c", "a">>
CmB == <<"c", "b">>
T1 == <<"t", "1">>
T2 == <<"t", "2">>
TargetFiles == {T1, T2}

TargetTypes ==
    {"EXECUTABLE", "STATIC_LIBRARY", "SHARED_LIBRARY", "MODULE_LIBRARY", "OBJECT_LIBRARY"}

\* a file whose text JSON.parse rejects
Garbage == [doc |-> "garbage"]

\* FileAPIIndex: reply maps object kinds to references
IndexDoc(kinds, cmFile) ==
    [doc |-> "index",
     reply |-> [k \in kinds |->
                  [kind |-> k,
                   jsonFile |-> IF k = "codemodel-v2" THEN cmFile ELSE <<"o">>]]]

IndexDocs ==
    { IndexDoc({}, CmA), IndexDoc({"cache-v2"}, CmA),
      IndexDoc({"codemodel-v2", "cache-v2"}, CmA), IndexDoc({"codemodel-v2"}, CmB) }

\* paths.build of the code model: CMake reports the absolute build directory
BuildRoot == <<"/", "r", "/", "b">>

TargetName(f) == IF f = T1 THEN "app" ELSE "core"
TargetId(f) == IF f = T1 THEN "app::@1" ELSE "core::@2"

TargetRef(f) == [name |-> TargetName(f), id |-> TargetId(f), jsonFile |-> f]

\* CodeModelV2
CodeModelDoc(configs) ==
    [doc |-> "codemodel",
     paths |-> [build |-> BuildRoot],
     configurations |->
        [c \in 1..Len(configs) |->
           [name |-> IF c = 1 THEN "Debug" ELSE "Release",
            targets |-> [t \in 1..Len(configs[c]) |-> TargetRef(configs[c][t])]]]]

TargetLists == {<<T1>>, <<T1, T2>>, <<T2, T1>>}

\* the same target list in every configuration (a multi-config generator)
CodeModelDocs ==
    { CodeModelDoc([c \in 1..n |-> l]) : n \in 0..MaxConfigs, l \in TargetLists }

\* declared artifact paths, as CMake and its generators write them
PathPool ==
    << <<"a">>, <<"l", "\\", "b">>, <<".", ".", "/", "x">>, <<"/", "o">>, <<"d", "/", ".", "/", "e">> >>

ArtifactEntries(f, n) ==
    [i \in 1..n |->
       [path |-> PathPool[((i + (IF f = T1 THEN 0 ELSE 1) - 1) % Len(PathPool)) + 1]]]

\* TargetInfo; hasArtifacts = FALSE is a document without the optional key
TargetDoc(f, type, hasArtifacts, n) ==
    [doc |-> "target", name |-> TargetName(f), type |-> type,
     hasArtifacts |-> hasArtifacts,
     artifacts |-> IF hasArtifacts THEN ArtifactEntries(f, n) ELSE <<>>]

\* Missing: the code model names a file that is not there
Missing == [doc |-> "missing"]

TargetDocs(f) ==
    { TargetDoc(f, type, TRUE, n) : type \in TargetTypes, n \in 0..MaxArtifacts }
    \cup { TargetDoc(f, type, FALSE, 0) : type \in TargetTypes }
    \cup { Garbage, Missing }

DefaultCodeModelA == CodeModelDoc(<<<<T1, T2>>>>)
DefaultCodeModelB == CodeModelDoc(<<<<T2>>, <<T2>>>>)
DefaultTarget(f) ==
    IF f = T1 THEN TargetDoc(T1, "EXECUTABLE", TRUE, 1)
    ELSE TargetDoc(T2, "STATIC_LIBRARY", TRUE, MaxArtifacts)

\* files of a reply directory: index files, the two code models, the targets
MakeFiles(indexes, cmA, cmB, targets, distractors) ==
    LET present ==
            { <<n>> : n \in DOMAIN indexes }
            \cup (IF cmA # Missing THEN {<<CmA>>} ELSE {})
            \cup (IF cmB # Missing THEN {<<CmB>>} ELSE {})
            \cup { <<f>> : f \in {g \in TargetFiles : targets[g] # Missing} }
            \cup (IF "nested" \in distractors THEN {IndexInSubDir} ELSE {})
            \cup (IF "names" \in distractors THEN {NotJson, NotIndexPrefixed} ELSE {})
    IN [r \in present |->
          IF Len(r) = 2 THEN IndexDoc({"codemodel-v2"}, CmB)
          ELSE IF r[1] \in DOMAIN indexes THEN indexes[r[1]]
          ELSE IF r[1] = CmA THEN cmA
          ELSE IF r[1] = CmB THEN cmB
          ELSE IF r[1] \in TargetFiles THEN targets[r[1]]
          ELSE IndexDoc({"codemodel-v2"}, CmB)]

MakeDirs(distractors) ==
    (IF "dir" \in distractors THEN {DirNamedLikeIndex} ELSE {})
    \cup (IF "nested" \in distractors THEN {SubDir} ELSE {})

\* every way to put at most MaxIndexFiles index files into the directory
IndexSets ==
    UNION { [names -> IndexDocs] :
              names \in {s \in SUBSET IndexNames : Cardinality(s) <= MaxIndexFiles} }


(***************************************************************************)
(* Deno file system calls on the reply directory                           *)
(***************************************************************************)

PathOf(rel) == Join(<<ReplyDir>> \o rel)

Last(s) == s[Len(s)]

\* walk(root, {maxDepth, includeFiles, includeDirs}): the entries it yields
WalkEntries(maxDepth, includeFiles, includeDirs) ==
    { [name |-> Last(r), path |-> PathOf(r), isFile |-> TRUE] :
        r \in {q \in DOMAIN fsFiles : includeFiles /\ Len(q) <= maxDepth} }
    \cup { [name |-> Last(r), path |-> PathOf(r), isFile |-> FALSE] :
        r \in {q \in fsDirs : includeDirs /\ Len(q) <= maxDepth} }

\* the orders in which a directory listing can come back from the OS
Orders(S) ==
    { o \in [1..Cardinality(S) -> S] : \A e \in S : \E i \in DOMAIN o : o[i] = e }

\* Deno.readTextFile followed by JSON.parse
NotFound(path) ==
    [name |-> "NotFound", message |-> "No such file or directory", path |-> path]
SyntaxError ==
    [name |-> "SyntaxError", message |-> "is not valid JSON", path |-> <<>>]

ReadJson(path) ==
    LET hits == {r \in DOMAIN fsFiles : PathOf(r) = path}
    IN IF hits = {} THEN [ok |-> FALSE, error |-> NotFound(path)]
       ELSE LET d == fsFiles[CHOOSE r \in hits : TRUE]
            IN IF d = Garbage THEN [ok |-> FALSE, error |-> SyntaxError]
               ELSE [ok |-> TRUE, doc |-> d]

(***************************************************************************)
(* parseFileAPI                                                            *)
(***************************************************************************)

ErrReplyDirNotFound ==
    [name |-> "Error", message |-> "CMake File API reply directory not found",
     path |-> ReplyDir, hint |-> "Run cmake configure first."]
ErrIndexNotFound ==
    [name |-> "Error", message |-> "CMake File API index file not found in",
     path |-> ReplyDir, hint |-> "Run cmake configure first."]
ErrCodemodelNotFound ==
    [name |-> "Error", message |-> "codemodel-v2 not found in File API response",
     path |-> <<>>]

Returned(v) == [status |-> "returned", value |-> v]
Threw(e) == [status |-> "threw", error |-> e]

\* a plausible slip: an empty catch block around the stat
ReplyDirMissing_Swallowed(exists) == FALSE

\* try { await Deno.stat(replyDir) } catch { throw ... }
ReplyDirMissing(exists) == ~exists

\* a plausible slip: the extension not checked
IsIndexName_PrefixOnly(name) == StartsWith(name, IndexPrefix)

\* entry.name.startsWith("index-") && entry.name.endsWith(".json")
IsIndexName(name) == StartsWith(name, IndexPrefix) /\ EndsWith(name, JsonSuffix)

\* a plausible slip: another object kind looked up
CodemodelKind_Cache == "cache-v2"

\* the key of index.reply["codemodel-v2"]
CodemodelKind == "codemodel-v2"

\* a plausible slip: a catch that returns what was collected so far
OnTargetError_Partial(error, collected) == Returned(collected)

\* no try/catch around the target read: the rejection leaves the function
OnTargetError(error, collected) == Threw(error)

\* Array.prototype.sort() of strings: ascending by code units (insertion sort)
RECURSIVE InsertSorted(_, _)
InsertSorted(x, s) ==
    IF s = <<>> THEN <<x>>
    ELSE IF StrLess(x, Head(s)) THEN <<x>> \o s
    ELSE <<Head(s)>> \o InsertSorted(x, Tail(s))

RECURSIVE SortStrings(_)
SortStrings(s) == IF s = <<>> THEN <<>> ELSE InsertSorted(Head(s), SortStrings(Tail(s)))

\* a plausible slip: the last file the walk yielded, the sort forgotten
SelectIndexPath_Unsorted(indexFiles) == Last(indexFiles)

\* a plausible slip: the first file after the sort (the oldest index)
SelectIndexPath_First(indexFiles) == SortStrings(indexFiles)[1]

\* indexFiles.sort(); indexFiles[indexFiles.length - 1]
SelectIndexPath(indexFiles) == Last(SortStrings(indexFiles))

\* a plausible slip: the working directory instead of the build root
ArtifactFullPath_Cwd(build, workdir, declared) ==
    Normalize(Join(<<workdir, ReplaceBackslashes(declared)>>))

\* a plausible slip: joined but the separators left as declared
ArtifactFullPath_Raw(build, workdir, declared) ==
    build \o <<"/">> \o declared

\* normalize(join(codemodel.paths.build, artifact.path.replace(/\\/g, "/")))
ArtifactFullPath(build, workdir, declared) ==
    Normalize(Join(<<build, ReplaceBackslashes(declared)>>))

\* a plausible slip: the kind filter forgotten
KeepsTarget_All(type) == TRUE

\* target.type === "EXECUTABLE" || ... "STATIC_LIBRARY" || ... "SHARED_LIBRARY"
KeepsTarget(type) ==
    type = "EXECUTABLE" \/ type = "STATIC_LIBRARY" \/ type = "SHARED_LIBRARY"

\* a plausible slip: unshift instead of push
PushAll_Front(collected, more) == more \o collected

\* artifacts.push(...) for each artifact of the target, in the order of its list
PushAll(collected, more) == collected \o more

\* the BuildArtifacts one target document contributes (lines 305-324)
TargetArtifacts(cm, target, workdir) ==
    IF KeepsTarget(target.type)
    THEN IF target.hasArtifacts /\ Len(target.artifacts) > 0
         THEN [i \in 1..Len(target.artifacts) |->
                 [name |-> target.name, type |-> target.type,
                  path |-> ArtifactFullPath(cm.paths.build, workdir, target.artifacts[i].path)]]
         ELSE <<>>
    ELSE <<>>

\* the loop position after (c, t): the next target reference, or <<0, 0>>
RECURSIVE NextPos(_, _, _)
NextPos(cm, c, t) ==
    IF c > Len(cm.configurations) THEN <<0, 0>>
    ELSE IF t + 1 <= Len(cm.configurations[c].targets) THEN <<c, t + 1>>
    ELSE NextPos(cm, c + 1, 0)

\* a plausible slip: the document removed once it has been read
FilesAfterRead_Consumed(files, path) ==
    [r \in {q \in DOMAIN files : PathOf(q) # path} |-> files[r]]

\* Deno.readTextFile(path) leaves the files of the reply directory as they are
FilesAfterRead(files, path) == files

\* a plausible slip: the result of the call before kept and handed out again
ResultOfCall_Remembered(result, remembered) ==
    IF remembered # None THEN remembered ELSE result

\* the function has no module-level variable: what the caller gets is what
\* this call threw or collected
ResultOfCall(result, remembered) == result

Finish(result) ==
    /\ pc' = "idle"
    /\ outcome' = ResultOfCall(result, prev)

\* the call is made: const replyDir = join(...); await Deno.stat(replyDir)
ParseFileAPI ==
    /\ pc = "idle"
    /\ pc' = "stat"
    /\ prev' = outcome
    /\ outcome' = None
    /\ changedBetween' = dirty
    /\ dirty' = FALSE
    /\ reads' = <<>>
    /\ artifacts' = <<>>
    /\ indexPath' = <<>>
    /\ codemodelPath' = <<>>
    /\ codemodel' = None
    /\ ci' = 0 /\ ti' = 0
    /\ UNCHANGED <<fsVars, pathVars, vsVars, caseVars, genVars>>

\* lines 252-258: the stat comes back
StatReplyDir ==
    /\ pc = "stat"
    /\ reads' = Append(reads, [op |-> "stat", path |-> ReplyDir])
    /\ IF ~ReplyDirMissing(replyDirExists)
       THEN pc' = "walk" /\ UNCHANGED outcome
       ELSE Finish(Threw(ErrReplyDirNotFound))
    /\ UNCHANGED <<indexPath, codemodelPath, codemodel, ci, ti, artifacts, prev,
                   changedBetween, dirty, fsVars, pathVars, vsVars, caseVars, genVars>>

\* lines 260-278: the walk is drained, the index file is chosen
WalkReplyDir ==
    /\ pc = "walk"
    /\ reads' = Append(reads, [op |-> "walk", path |-> ReplyDir])
    /\ LET found == {e \in WalkEntries(1, TRUE, FALSE) : IsIndexName(e.name)}
       IN \E order \in Orders(found) :
            LET indexFiles == [i \in DOMAIN order |-> order[i].path]
            IN IF Len(indexFiles) = 0
               THEN Finish(Threw(ErrIndexNotFound)) /\ UNCHANGED indexPath
               ELSE /\ indexPath' = SelectIndexPath(indexFiles)
                    /\ pc' = "readIndex"
                    /\ UNCHANGED outcome
    /\ UNCHANGED <<codemodelPath, codemodel, ci, ti, artifacts, prev,
                   changedBetween, dirty, fsVars, pathVars, vsVars, caseVars, genVars>>

\* lines 280-290: the index is read and parsed, the code model is looked up
ReadIndex ==
    /\ pc = "readIndex"
    /\ reads' = Append(reads, [op |-> "read", path |-> indexPath])
    /\ LET r == ReadJson(indexPath)
       IN IF ~r.ok
          THEN Finish(Threw(r.error)) /\ UNCHANGED codemodelPath
          ELSE IF CodemodelKind \notin DOMAIN r.doc.reply
          THEN Finish(Threw(ErrCodemodelNotFound)) /\ UNCHANGED codemodelPath
          ELSE /\ codemodelPath' = Join(<<ReplyDir, r.doc.reply[CodemodelKind].jsonFile>>)
               /\ pc' = "readCodemodel"
               /\ UNCHANGED outcome
    /\ UNCHANGED <<indexPath, codemodel, ci, ti, artifacts, prev,
                   changedBetween, dirty, replyDirExists, fsDirs, pathVars, vsVars, caseVars, genVars>>
    /\ fsFiles' = FilesAfterRead(fsFiles, indexPath)

\* lines 291-299: the code model is read and parsed, the loops are entered
ReadCodemodel ==
    /\ pc = "readCodemodel"
    /\ reads' = Append(reads, [op |-> "read", path |-> codemodelPath])
    /\ LET r == ReadJson(codemodelPath)
       IN IF ~r.ok
          THEN Finish(Threw(r.error)) /\ UNCHANGED <<codemodel, ci, ti>>
          ELSE LET pos == NextPos(r.doc, 1, 0)
               IN /\ codemodel' = r.doc
                  /\ ci' = pos[1] /\ ti' = pos[2]
                  /\ IF pos = <<0, 0>>
                     THEN Finish(Returned(artifacts))
                     ELSE pc' = "readTarget" /\ UNCHANGED outcome
    /\ UNCHANGED <<indexPath, codemodelPath, artifacts, prev,
                   changedBetween, dirty, replyDirExists, fsDirs, pathVars, vsVars, caseVars, genVars>>
    /\ fsFiles' = FilesAfterRead(fsFiles, codemodelPath)

\* lines 300-328: one target document is read; its artifacts are pushed
ReadTarget ==
    /\ pc = "readTarget"
    /\ LET targetRef == codemodel.configurations[ci].targets[ti]
           targetPath == Join(<<ReplyDir, targetRef.jsonFile>>)
           r == ReadJson(targetPath)
           pos == NextPos(codemodel, ci, ti)
       IN /\ reads' = Append(reads, [op |-> "read", path |-> targetPath])
          /\ IF ~r.ok
             THEN Finish(OnTargetError(r.error, artifacts)) /\ UNCHANGED <<artifacts, ci, ti>>
             ELSE /\ artifacts' = PushAll(artifacts, TargetArtifacts(codemodel, r.doc, cwd))
                  /\ ci' = pos[1] /\ ti' = pos[2]
                  /\ IF pos = <<0, 0>>
                     THEN Finish(Returned(artifacts'))
                     ELSE pc' = "readTarget" /\ UNCHANGED outcome
    /\ UNCHANGED <<indexPath, codemodelPath, codemodel, prev,
                   changedBetween, dirty, replyDirExists, fsDirs, pathVars, vsVars, caseVars, genVars>>
    /\ fsFiles' = FilesAfterRead(fsFiles, Join(<<ReplyDir, codemodel.configurations[ci].targets[ti].jsonFile>>))


(***************************************************************************)
(* The build script around the call: cmake writes the reply, clean removes *)
(* the build directory. Both run between calls, never during one.          *)
(***************************************************************************)

\* the shell pattern index-*.json
MatchesIndexGlob(n) ==
    \E k \in 0..Len(n) :
        /\ Len(n) = Len(IndexPrefix) + k + Len(JsonSuffix)
        /\ SubSeq(n, 1, Len(IndexPrefix)) = IndexPrefix
        /\ SubSeq(n, Len(IndexPrefix) + k + 1, Len(n)) = JsonSuffix

\* the regular files directly inside the reply directory that cmake wrote as indexes
IndexFilesPresent == {r \in DOMAIN fsFiles : Len(r) = 1 /\ MatchesIndexGlob(r[1])}

\* configure(): cmake runs again and leaves one more index file in the reply
Configure ==
    /\ pc = "idle"
    /\ replyDirExists
    /\ ~dirty
    /\ Cardinality(IndexFilesPresent) < MaxIndexFiles
    /\ \E n \in IndexNames, d \in IndexDocs :
          /\ <<n>> \notin DOMAIN fsFiles
          /\ fsFiles' = [r \in DOMAIN fsFiles \cup {<<n>>} |->
                           IF r = <<n>> THEN d ELSE fsFiles[r]]
    /\ dirty' = TRUE
    /\ UNCHANGED <<replyDirExists, fsDirs, pc, indexPath, codemodelPath, codemodel, ci, ti,
                   artifacts, reads, outcome, prev, changedBetween, pathVars, vsVars, caseVars, genVars>>

\* clean(): rm -rf build
Clean ==
    /\ pc = "idle"
    /\ replyDirExists
    /\ replyDirExists' = FALSE
    /\ fsFiles' = <<>>
    /\ fsDirs' = {}
    /\ dirty' = TRUE
    /\ UNCHANGED <<pc, indexPath, codemodelPath, codemodel, ci, ti,
                   artifacts, reads, outcome, prev, changedBetween, pathVars, vsVars, caseVars, genVars>>

(***************************************************************************)
(* Specification of the File API consumer                                  *)
(***************************************************************************)

InitCall ==
    /\ pc = "idle"
    /\ indexPath = <<>>
    /\ codemodelPath = <<>>
    /\ codemodel = None
    /\ ci = 0 /\ ti = 0
    /\ artifacts = <<>>
    /\ reads = <<>>
    /\ outcome = None
    /\ prev = None
    /\ changedBetween = FALSE
    /\ dirty = FALSE

IdlePath ==
    /\ cwd = <<"/", "w">>
    /\ buildRoot = BuildRoot
    /\ declaredPath = <<>>
    /\ fullPath = <<>>

IdleCase ==
    /\ projectName = <<>>
    /\ derived = None

IdleJuce ==
    /\ genPc = "idle"
    /\ genConfig = None
    /\ genEnv = None
    /\ genRoot = "missing"
    /\ genDisk = {}
    /\ genNext = 0
    /\ genBanner = FALSE
    /\ genExitCode = -1

IdleVS ==
    /\ vsHost = None
    /\ vsCall = None
    /\ vsProbes = <<>>
    /\ vsSpawned = 0
    /\ vsWarnings = 0
    /\ vsOutcome = None

DefaultTargets == [f \in TargetFiles |-> DefaultTarget(f)]

\* reply directories that differ in their index files and in what else lies there
InitIndexVariety ==
    /\ replyDirExists = TRUE
    /\ \E indexes \in IndexSets, distractors \in SUBSET Distractors,
          cmB \in {DefaultCodeModelB, Missing, Garbage} :
          /\ fsFiles = MakeFiles(indexes, DefaultCodeModelA, cmB, DefaultTargets, distractors)
          /\ fsDirs = MakeDirs(distractors)

\* reply directories with one index file that differ in code model and targets
InitTargetVariety ==
    /\ replyDirExists = TRUE
    /\ \E cmA \in CodeModelDocs, d1 \in TargetDocs(T1), d2 \in TargetDocs(T2) :
          /\ fsFiles =
                MakeFiles([n \in {IndexPrefix \o <<"1">> \o JsonSuffix} |->
                              IndexDoc({"codemodel-v2", "cache-v2"}, CmA)],
                          cmA, DefaultCodeModelB,
                          [f \in TargetFiles |-> IF f = T1 THEN d1 ELSE d2], {})
          /\ fsDirs = {}

\* cmake configure has not run
InitNotConfigured ==
    /\ replyDirExists = FALSE
    /\ fsFiles = <<>>
    /\ fsDirs = {}

Init ==
    /\ InitIndexVariety \/ InitNotConfigured
    /\ InitCall
    /\ IdlePath
    /\ IdleCase
    /\ IdleJuce
    /\ IdleVS

Next ==
    \/ ParseFileAPI
    \/ StatReplyDir
    \/ WalkReplyDir
    \/ ReadIndex
    \/ ReadCodemodel
    \/ ReadTarget
    \/ Configure
    \/ Clean

\* calls on reply directories that cmake and the build script rewrite
Spec == Init /\ [][Next]_vars

InitExtract ==
    /\ InitTargetVariety
    /\ InitCall
    /\ IdlePath
    /\ IdleCase
    /\ IdleJuce
    /\ IdleVS

NextExtract ==
    \/ ParseFileAPI
    \/ StatReplyDir
    \/ WalkReplyDir
    \/ ReadIndex
    \/ ReadCodemodel
    \/ ReadTarget

\* calls on configured build directories of every shape of code model and target
SpecExtract == InitExtract /\ [][NextExtract]_vars


(***************************************************************************)
(* Visual Studio detector: the host                                        *)
(***************************************************************************)

\* paths are sequences of path segments; join concatenates them
ProgramFiles == <<"C:", "Program Files", "Microsoft Visual Studio">>
ProgramFilesX86 == <<"C:", "Program Files (x86)", "Microsoft Visual Studio">>
VCToolsMarker == <<"VC", "Tools", "MSVC">>

\* getVSWherePath()
VSWherePath == ProgramFilesX86 \o <<"Installer", "vswhere.exe">>

HostVersionDirs == {"18", "2022", "2019"}
HostEditions == {"Community", "Professional", "Enterprise", "Preview"}

\* the places where an edition of Visual Studio can be installed
InstallPaths ==
    { base \o <<ver, edition>> :
        base \in {ProgramFiles, ProgramFilesX86}, ver \in HostVersionDirs,
        edition \in HostEditions }

\* what lies at an install path: a directory with the VC tools, a directory
\* without them, or a regular file
PathKinds == {"dirWithTools", "dir", "file"}

HostDirs ==
    UNION { [ps -> PathKinds] :
              ps \in {q \in SUBSET InstallPaths : Cardinality(q) <= MaxInstalls} }

\* one block of the output of vswhere.exe: the values of the keys the parser
\* looks at ("" for a key the block does not have)
Block(id, path, plv) ==
    [instanceId |-> id, installationPath |-> path, installationVersion |-> "17.9.1",
     displayName |-> "Visual Studio", catalog_productLineVersion |-> plv]

BlockPool ==
    { Block("a1", "D:\\VS", plv) : plv \in {"18", "2022", "2019", "2017", ""} }
    \cup { Block("", "D:\\VS", "2022"), Block("a1", "", "2022") }

VSWhereOutputs == UNION { [1..n -> BlockPool] : n \in 0..MaxInstances }

\* vswhere.exe on the host: how the stat of it ends, and what a run gives
VSWhere(stat, code, blocks) == [stat |-> stat, code |-> code, blocks |-> blocks]

VSWhereFailures ==
    { VSWhere("NotFound", 0, <<>>), VSWhere("PermissionDenied", 0, <<>>),
      VSWhere("Other", 0, <<>>), VSWhere("ok", 1, <<>>),
      VSWhere("ok", 0, <<>>), VSWhere("ok", 0, <<Block("a1", "D:\\VS", "2017")>>) }

Host(os, vswhere, dirs) == [os |-> os, vswhere |-> vswhere, dirs |-> dirs]

\* Deno.stat(path) on the host
Stat(host, path) ==
    IF path = VSWherePath
    THEN [ok |-> host.vswhere.stat = "ok", isDirectory |-> FALSE, error |-> host.vswhere.stat]
    ELSE IF path \in DOMAIN host.dirs /\ host.dirs[path] = "denied"
    THEN [ok |-> FALSE, isDirectory |-> FALSE, error |-> "PermissionDenied"]
    ELSE IF path \in DOMAIN host.dirs
    THEN [ok |-> TRUE, isDirectory |-> host.dirs[path] # "file", error |-> "ok"]
    ELSE IF \E q \in DOMAIN host.dirs : path = q \o VCToolsMarker /\ host.dirs[q] = "dirWithTools"
    THEN [ok |-> TRUE, isDirectory |-> TRUE, error |-> "ok"]
    ELSE [ok |-> FALSE, isDirectory |-> FALSE, error |-> "NotFound"]

\* what a detection did and found
Detection(versions, probes, spawned, warnings) ==
    [versions |-> versions, probes |-> probes, spawned |-> spawned, warnings |-> warnings]

\* a detection that ended with an error thrown to its caller
Failure(error, probes, spawned, warnings) ==
    [versions |-> <<>>, probes |-> probes, spawned |-> spawned, warnings |-> warnings,
     error |-> error]

Throws(d) == "error" \in DOMAIN d

(***************************************************************************)
(* src/generator/vs-detector.ts                                            *)
(***************************************************************************)

Gen_SUPPORTED_VS_VERSIONS ==
    << [year |-> "18", version |-> "18", generator |-> "Visual Studio 18 2026"],
       [year |-> "2022", version |-> "17", generator |-> "Visual Studio 17 2022"],
       [year |-> "2019", version |-> "16", generator |-> "Visual Studio 16 2019"] >>

Gen_basePaths == <<ProgramFiles, ProgramFilesX86>>
Gen_editions == <<"Community", "Professional", "Enterprise">>

\* the loop over the editions of one version under one base path, from edition e
RECURSIVE Gen_ProbeEditions(_, _, _, _)
Gen_ProbeEditions(host, vsVersion, basePath, e) ==
    IF e > Len(Gen_editions) THEN Detection(<<>>, <<>>, 0, 0)
    ELSE LET installPath ==  \* const fullPath
                 basePath \o <<vsVersion.year, Gen_editions[e]>>
             vcToolsPath == installPath \o VCToolsMarker
             st == Stat(host, installPath)
             rest == Gen_ProbeEditions(host, vsVersion, basePath, e + 1)
         IN IF st.ok /\ st.isDirectory
            THEN IF Stat(host, vcToolsPath).ok
                 THEN Detection(<<[year |-> vsVersion.year, version |-> vsVersion.version,
                                   generator |-> vsVersion.generator, path |-> installPath]>>,
                                <<installPath, vcToolsPath>>, 0, 0)
                 ELSE Detection(rest.versions, <<installPath, vcToolsPath>> \o rest.probes, 0, 0)
            ELSE Detection(rest.versions, <<installPath>> \o rest.probes, 0, 0)

\* the loops over versions and base paths, from the k-th (version, base) pair
RECURSIVE Gen_ProbeFrom(_, _)
Gen_ProbeFrom(host, k) ==
    IF k > Len(Gen_SUPPORTED_VS_VERSIONS) * Len(Gen_basePaths) THEN Detection(<<>>, <<>>, 0, 0)
    ELSE LET vsVersion == Gen_SUPPORTED_VS_VERSIONS[((k - 1) \div Len(Gen_basePaths)) + 1]
             basePath == Gen_basePaths[((k - 1) % Len(Gen_basePaths)) + 1]
             here == Gen_ProbeEditions(host, vsVersion, basePath, 1)
             rest == Gen_ProbeFrom(host, k + 1)
         IN Detection(here.versions \o rest.versions, here.probes \o rest.probes, 0, 0)

Gen_detectInstalledVSVersions(host) ==
    IF host.os # "windows" THEN Detection(<<>>, <<>>, 0, 0)
    ELSE Gen_ProbeFrom(host, 1)

Gen_getVSGeneratorByYear(year) ==
    LET hits == {i \in DOMAIN Gen_SUPPORTED_VS_VERSIONS : Gen_SUPPORTED_VS_VERSIONS[i].year = year}
    IN IF hits = {} THEN "null"
       ELSE Gen_SUPPORTED_VS_VERSIONS[CHOOSE i \in hits : \A j \in hits : i <= j].generator

Gen_isValidVSVersion(version) ==
    \E i \in DOMAIN Gen_SUPPORTED_VS_VERSIONS : Gen_SUPPORTED_VS_VERSIONS[i].year = version

\* Array.prototype.join(", ")
RECURSIVE JoinComma(_)
JoinComma(strs) ==
    IF strs = <<>> THEN ""
    ELSE IF Len(strs) = 1 THEN strs[1]
    ELSE strs[1] \o ", " \o JoinComma(Tail(strs))

InvalidVersionError(version, years) ==
    [name |-> "Error",
     message |-> "Invalid Visual Studio version: " \o version \o ". Supported: " \o JoinComma(years)]

\* a plausible slip: the newest catalog entry as the fallback
FallbackGenerator_Newest == "Visual Studio 18 2026"

\* return "Visual Studio 17 2022"
FallbackGenerator == "Visual Studio 17 2022"

\* the optional argument: not given, or a string; JavaScript truthiness of it
NoVersion == [given |-> FALSE, value |-> ""]
Version(v) == [given |-> TRUE, value |-> v]
Truthy(arg) == arg.given /\ arg.value # ""

\* the outcome of a call and what it did on the way
CallResult(result, detection, warnings) ==
    [outcome |-> result, probes |-> detection.probes, spawned |-> detection.spawned,
     warnings |-> detection.warnings + warnings]

NoDetection == Detection(<<>>, <<>>, 0, 0)

Gen_getLatestVSVersion(host) ==
    LET d == Gen_detectInstalledVSVersions(host)
    IN CallResult(Returned(IF Len(d.versions) = 0 THEN None ELSE d.versions[1]), d, 0)

Gen_getDefaultVSGenerator(host, specifiedVersion) ==
    IF Truthy(specifiedVersion)
    THEN IF ~Gen_isValidVSVersion(specifiedVersion.value)
         THEN CallResult(
                Threw(InvalidVersionError(specifiedVersion.value,
                        [i \in DOMAIN Gen_SUPPORTED_VS_VERSIONS |-> Gen_SUPPORTED_VS_VERSIONS[i].year])),
                NoDetection, 0)
         ELSE CallResult(Returned(Gen_getVSGeneratorByYear(specifiedVersion.value)), NoDetection, 0)
    ELSE LET latest == Gen_getLatestVSVersion(host)
         IN IF latest.outcome.value # None
            THEN [latest EXCEPT !.outcome = Returned(latest.outcome.value.generator)]
            ELSE [latest EXCEPT !.outcome = Returned(FallbackGenerator),
                                !.warnings = latest.warnings + 1]

(***************************************************************************)
(* src/unnamed/part_003: the detector that asks vswhere.exe first          *)
(***************************************************************************)

VS_VERSION_MAP_KEYS == {"18", "2022", "2019"}

VS_VERSION_MAP(plv) ==
    CASE plv = "18" -> [version |-> "18", generatorYear |-> "2026"]
      [] plv = "2022" -> [version |-> "17", generatorYear |-> "2022"]
      [] plv = "2019" -> [version |-> "16", generatorYear |-> "2019"]

SUPPORTED_VS_VERSIONS ==
    << [year |-> "2026", version |-> "18", generator |-> "Visual Studio 18 2026"],
       [year |-> "2022", version |-> "17", generator |-> "Visual Studio 17 2022"],
       [year |-> "2019", version |-> "16", generator |-> "Visual Studio 16 2019"] >>

SUPPORTED_YEARS == [i \in DOMAIN SUPPORTED_VS_VERSIONS |-> SUPPORTED_VS_VERSIONS[i].year]

KnownEditions == <<"Enterprise", "Professional", "Community", "Preview">>

VS_KNOWN_PATHS ==
    << [year |-> "2026",
        paths |-> [e \in DOMAIN KnownEditions |-> ProgramFiles \o <<"18", KnownEditions[e]>>]],
       [year |-> "2022",
        paths |-> [e \in DOMAIN KnownEditions |-> ProgramFiles \o <<"2022", KnownEditions[e]>>]],
       [year |-> "2019",
        paths |-> [e \in DOMAIN KnownEditions |-> ProgramFilesX86 \o <<"2019", KnownEditions[e]>>]] >>

\* a plausible slip: every block taken for an instance, whatever keys it has
parseVSWhereOutput_NoFilter(blocks) ==
    [i \in DOMAIN blocks |->
          [instanceId |-> blocks[i].instanceId,
           installationPath |-> blocks[i].installationPath,
           installationVersion |-> blocks[i].installationVersion,
           displayName |-> blocks[i].displayName,
           productLineVersion |-> blocks[i].catalog_productLineVersion]]

\* the blocks that become instances: both required fields non-empty
parseVSWhereOutput(blocks) ==
    LET kept == SelectSeq(blocks, LAMBDA b : b.instanceId # "" /\ b.installationPath # "")
    IN [i \in DOMAIN kept |->
          [instanceId |-> kept[i].instanceId,
           installationPath |-> kept[i].installationPath,
           installationVersion |-> kept[i].installationVersion,
           displayName |-> kept[i].displayName,
           productLineVersion |-> kept[i].catalog_productLineVersion]]

\* a plausible slip: the product line taken for the year
instanceToVSVersion_ProductLine(instance) ==
    IF instance.productLineVersion \notin VS_VERSION_MAP_KEYS THEN None
    ELSE LET mapEntry == VS_VERSION_MAP(instance.productLineVersion)
         IN [year |-> instance.productLineVersion,
             version |-> mapEntry.version,
             generator |-> "Visual Studio " \o mapEntry.version \o " " \o instance.productLineVersion,
             path |-> instance.installationPath,
             displayName |-> instance.displayName,
             installationVersion |-> instance.installationVersion]

\* the VSVersion of an instance; None for a product line the map does not have
instanceToVSVersion(instance) ==
    IF instance.productLineVersion \notin VS_VERSION_MAP_KEYS THEN None
    ELSE LET mapEntry == VS_VERSION_MAP(instance.productLineVersion)
         IN [year |-> mapEntry.generatorYear,
             version |-> mapEntry.version,
             generator |-> "Visual Studio " \o mapEntry.version \o " " \o mapEntry.generatorYear,
             path |-> instance.installationPath,
             displayName |-> instance.displayName,
             installationVersion |-> instance.installationVersion]

\* parseInt of the version strings of the map
ParseInt(str) == CASE str = "18" -> 18 [] str = "17" -> 17 [] str = "16" -> 16

\* versions.sort((a, b) => parseInt(b.version) - parseInt(a.version)): stable
RECURSIVE InsertByVersion(_, _)
InsertByVersion(v, sorted) ==
    IF sorted = <<>> THEN <<v>>
    ELSE IF ParseInt(Head(sorted).version) - ParseInt(v.version) < 0
    THEN <<v>> \o sorted
    ELSE <<Head(sorted)>> \o InsertByVersion(v, Tail(sorted))

\* a plausible slip: the instances left in the order vswhere.exe gave them
SortByVersion_Unsorted(versions, sorted) == versions

RECURSIVE SortByVersion(_, _)
SortByVersion(versions, sorted) ==
    IF versions = <<>> THEN sorted
    ELSE SortByVersion(Tail(versions), InsertByVersion(Head(versions), sorted))

\* the paths of one VS_KNOWN_PATHS entry, from the i-th on
RECURSIVE ProbeKnownPaths(_, _, _)
ProbeKnownPaths(host, entry, i) ==
    IF i > Len(entry.paths) THEN Detection(<<>>, <<>>, 0, 0)
    ELSE LET vsPath == entry.paths[i]
             st == Stat(host, vsPath)
             hits == {k \in DOMAIN SUPPORTED_VS_VERSIONS : SUPPORTED_VS_VERSIONS[k].year = entry.year}
             rest == ProbeKnownPaths(host, entry, i + 1)
         IN IF st.ok /\ st.isDirectory /\ hits # {}
            THEN LET vsVersion == SUPPORTED_VS_VERSIONS[CHOOSE k \in hits : \A j \in hits : k <= j]
                 IN Detection(<<[year |-> vsVersion.year, version |-> vsVersion.version,
                                  generator |-> vsVersion.generator, path |-> vsPath]>>,
                              <<vsPath>>, 0, 0)
            ELSE Detection(rest.versions, <<vsPath>> \o rest.probes, 0, 0)

RECURSIVE detectVSByKnownPathsFrom(_, _)
detectVSByKnownPathsFrom(host, k) ==
    IF k > Len(VS_KNOWN_PATHS) THEN Detection(<<>>, <<>>, 0, 0)
    ELSE LET here == ProbeKnownPaths(host, VS_KNOWN_PATHS[k], 1)
             rest == detectVSByKnownPathsFrom(host, k + 1)
         IN Detection(here.versions \o rest.versions, here.probes \o rest.probes, 0, 0)

detectVSByKnownPaths(host) == detectVSByKnownPathsFrom(host, 1)

\* runVSWhere(): the blocks of the output, or the error of a non-zero exit
runVSWhere(host) ==
    IF host.vswhere.code # 0
    THEN Threw([name |-> "Error", message |-> "vswhere.exe failed with code 1"])
    ELSE Returned(host.vswhere.blocks)

\* a plausible slip: the stat of vswhere.exe outside the try block
CatchStatError_Rethrow(error, probes) == Failure(error, probes, 0, 0)

\* catch (error) { console.warn(...); return []; } around the stat
CatchStatError(error, probes) == Detection(<<>>, probes, 0, 1)

\* a plausible slip: runVSWhere() outside the try block
CatchRunError_Rethrow(error, probes) == Failure(error, probes, 1, 0)

\* catch (error) { console.warn(...); return []; } around the run
CatchRunError(error, probes) == Detection(<<>>, probes, 1, 1)

detectVSByVSWhere(host) ==
    LET st == Stat(host, VSWherePath)
        output == runVSWhere(host)
    IN IF ~st.ok
       THEN CatchStatError(st.error, <<VSWherePath>>)
       ELSE IF output.status = "threw"
       THEN CatchRunError(output.error, <<VSWherePath>>)
       ELSE LET instances == parseVSWhereOutput(output.value)
                mapped == [i \in DOMAIN instances |-> instanceToVSVersion(instances[i])]
                versions == SelectSeq(mapped, LAMBDA v : v # None)
            IN Detection(SortByVersion(versions, <<>>), <<VSWherePath>>, 1, 0)

\* a plausible slip: the test of Deno.build.os left out
detectInstalledVSVersions_AnyOS(host) ==
    LET vswhereResult == detectVSByVSWhere(host)
    IN IF Throws(vswhereResult) THEN vswhereResult
       ELSE IF Len(vswhereResult.versions) > 0
       THEN vswhereResult
       ELSE LET known == detectVSByKnownPaths(host)
            IN Detection(known.versions, vswhereResult.probes \o known.probes,
                         vswhereResult.spawned, vswhereResult.warnings + 1)

detectInstalledVSVersions(host) ==
    IF host.os # "windows" THEN Detection(<<>>, <<>>, 0, 0)
    ELSE LET vswhereResult == detectVSByVSWhere(host)
         IN IF Throws(vswhereResult) THEN vswhereResult
            ELSE IF Len(vswhereResult.versions) > 0
            THEN vswhereResult
            ELSE LET known == detectVSByKnownPaths(host)
                 IN Detection(known.versions, vswhereResult.probes \o known.probes,
                              vswhereResult.spawned, vswhereResult.warnings + 1)

getLatestVSVersion(host) ==
    LET d == detectInstalledVSVersions(host)
    IN IF Throws(d) THEN CallResult(Threw(d.error), d, 0)
       ELSE CallResult(Returned(IF Len(d.versions) = 0 THEN None ELSE d.versions[1]), d, 0)

getVSGeneratorByYear(year) ==
    LET hits == {i \in DOMAIN SUPPORTED_VS_VERSIONS : SUPPORTED_VS_VERSIONS[i].year = year}
    IN IF hits = {} THEN "null"
       ELSE SUPPORTED_VS_VERSIONS[CHOOSE i \in hits : \A j \in hits : i <= j].generator

isValidVSVersion(version) ==
    \E i \in DOMAIN SUPPORTED_YEARS : SUPPORTED_YEARS[i] = version

getDefaultVSGenerator(host, specifiedVersion) ==
    IF Truthy(specifiedVersion)
    THEN IF ~isValidVSVersion(specifiedVersion.value)
         THEN CallResult(Threw(InvalidVersionError(specifiedVersion.value, SUPPORTED_YEARS)),
                         NoDetection, 0)
         ELSE CallResult(Returned(getVSGeneratorByYear(specifiedVersion.value)), NoDetection, 0)
    ELSE LET latest == getLatestVSVersion(host)
         IN IF latest.outcome.status = "threw" THEN latest
            ELSE IF latest.outcome.value # None
            THEN [latest EXCEPT !.outcome = Returned(latest.outcome.value.generator)]
            ELSE [latest EXCEPT !.outcome = Returned(FallbackGenerator),
                                !.warnings = latest.warnings + 1]

(***************************************************************************)
(* Specification of the Visual Studio detector                             *)
(***************************************************************************)

GeneratorModule == "src/generator/vs-detector.ts"
VSWhereModule == "src/unnamed/part_003"

\* the strings a caller asks for, and the call that gives no version
RequestedVersions ==
    {Version(v) : v \in {"2026", "2022", "2019", "18", "2015", "invalid", ""}} \cup {NoVersion}

OneInstall(path, kind) == [q \in {path} |-> kind]

SampleDirs ==
    { <<>>,
      OneInstall(ProgramFiles \o <<"2022", "Community">>, "dirWithTools"),
      OneInstall(ProgramFilesX86 \o <<"2019", "Enterprise">>, "dir"),
      OneInstall(ProgramFiles \o <<"2022", "Enterprise">>, "denied") }

NonWindowsHosts ==
    { Host(os, VSWhere("NotFound", 0, <<>>), dirs) : os \in {"linux", "darwin"}, dirs \in SampleDirs }

\* Windows hosts that differ in what is installed where
WindowsHostsByInstall ==
    { Host("windows", vw, dirs) :
        vw \in {VSWhere("NotFound", 0, <<>>), VSWhere("ok", 0, <<>>)}, dirs \in HostDirs }

\* Windows hosts that differ in what vswhere.exe does
WindowsHostsByVSWhere ==
    { Host("windows", vw, dirs) :
        vw \in VSWhereFailures \cup {VSWhere("ok", 0, blocks) : blocks \in VSWhereOutputs},
        dirs \in SampleDirs }

Hosts == NonWindowsHosts \cup WindowsHostsByInstall \cup WindowsHostsByVSWhere

\* which exported function of which module was called, and with what
CallOf(module, op, arg) == [module |-> module, op |-> op, arg |-> arg]

\* the list a detection returns, with what the detection did
Detected(d) ==
    IF Throws(d) THEN CallResult(Threw(d.error), d, 0)
    ELSE CallResult(Returned(d.versions), d, 0)

\* each call of an exported function runs to its end and leaves what it did
Gen_CallDetectInstalledVSVersions ==
    \E result \in {Detected(Gen_detectInstalledVSVersions(vsHost))} :
       /\ vsCall' = CallOf(GeneratorModule, "detectInstalledVSVersions", NoVersion)
       /\ vsOutcome' = result.outcome
       /\ vsProbes' = result.probes
       /\ vsSpawned' = result.spawned
       /\ vsWarnings' = result.warnings
       /\ UNCHANGED <<vsHost, fsVars, callVars, pathVars, caseVars, genVars>>

Gen_CallGetLatestVSVersion ==
    \E result \in {Gen_getLatestVSVersion(vsHost)} :
       /\ vsCall' = CallOf(GeneratorModule, "getLatestVSVersion", NoVersion)
       /\ vsOutcome' = result.outcome
       /\ vsProbes' = result.probes
       /\ vsSpawned' = result.spawned
       /\ vsWarnings' = result.warnings
       /\ UNCHANGED <<vsHost, fsVars, callVars, pathVars, caseVars, genVars>>

Gen_CallGetDefaultVSGenerator ==
    \E specifiedVersion \in RequestedVersions :
          \E result \in {Gen_getDefaultVSGenerator(vsHost, specifiedVersion)} :
             /\ vsCall' = CallOf(GeneratorModule, "getDefaultVSGenerator", specifiedVersion)
             /\ vsOutcome' = result.outcome
             /\ vsProbes' = result.probes
             /\ vsSpawned' = result.spawned
             /\ vsWarnings' = result.warnings
             /\ UNCHANGED <<vsHost, fsVars, callVars, pathVars, caseVars, genVars>>

CallDetectInstalledVSVersions ==
    \E result \in {Detected(detectInstalledVSVersions(vsHost))} :
       /\ vsCall' = CallOf(VSWhereModule, "detectInstalledVSVersions", NoVersion)
       /\ vsOutcome' = result.outcome
       /\ vsProbes' = result.probes
       /\ vsSpawned' = result.spawned
       /\ vsWarnings' = result.warnings
       /\ UNCHANGED <<vsHost, fsVars, callVars, pathVars, caseVars, genVars>>

CallGetLatestVSVersion ==
    \E result \in {getLatestVSVersion(vsHost)} :
       /\ vsCall' = CallOf(VSWhereModule, "getLatestVSVersion", NoVersion)
       /\ vsOutcome' = result.outcome
       /\ vsProbes' = result.probes
       /\ vsSpawned' = result.spawned
       /\ vsWarnings' = result.warnings
       /\ UNCHANGED <<vsHost, fsVars, callVars, pathVars, caseVars, genVars>>

CallGetDefaultVSGenerator ==
    \E specifiedVersion \in RequestedVersions :
          \E result \in {getDefaultVSGenerator(vsHost, specifiedVersion)} :
             /\ vsCall' = CallOf(VSWhereModule, "getDefaultVSGenerator", specifiedVersion)
             /\ vsOutcome' = result.outcome
             /\ vsProbes' = result.probes
             /\ vsSpawned' = result.spawned
             /\ vsWarnings' = result.warnings
             /\ UNCHANGED <<vsHost, fsVars, callVars, pathVars, caseVars, genVars>>

InitVS ==
    /\ vsHost \in Hosts
    /\ vsCall = None
    /\ vsProbes = <<>>
    /\ vsSpawned = 0
    /\ vsWarnings = 0
    /\ vsOutcome = None
    /\ InitNotConfigured
    /\ InitCall
    /\ IdlePath
    /\ IdleCase
    /\ IdleJuce

NextVS ==
    \/ Gen_CallDetectInstalledVSVersions
    \/ Gen_CallGetLatestVSVersion
    \/ Gen_CallGetDefaultVSGenerator
    \/ CallDetectInstalledVSVersions
    \/ CallGetLatestVSVersion
    \/ CallGetDefaultVSGenerator

\* calls of both detector modules on hosts of every shape
SpecVS == InitVS /\ [][NextVS]_vars

(***************************************************************************)
(* Specification of the catalog functions of the detector                  *)
(***************************************************************************)

YearDigits == {"0", "1", "2", "6", "9"}

\* the strings a caller can hand to the catalog functions: the years of this
\* century over a few digits, the toolchain numbers, and strings that are no year
VersionStrings ==
    { "20" \o c \o d : c \in YearDigits, d \in YearDigits }
    \cup {"18", "17", "16", "2015", "2017", "invalid", "", " 2022", "2022 ", "Visual Studio 17 2022"}

\* each call of a catalog function returns at once and touches nothing
Gen_CallIsValidVSVersion ==
    \E version \in VersionStrings :
        /\ vsCall' = CallOf(GeneratorModule, "isValidVSVersion", Version(version))
        /\ vsOutcome' = Returned(Gen_isValidVSVersion(version))
        /\ vsProbes' = <<>> /\ vsSpawned' = 0 /\ vsWarnings' = 0
        /\ UNCHANGED <<vsHost, fsVars, callVars, pathVars, caseVars, genVars>>

Gen_CallGetVSGeneratorByYear ==
    \E year \in VersionStrings :
        /\ vsCall' = CallOf(GeneratorModule, "getVSGeneratorByYear", Version(year))
        /\ vsOutcome' = Returned(Gen_getVSGeneratorByYear(year))
        /\ vsProbes' = <<>> /\ vsSpawned' = 0 /\ vsWarnings' = 0
        /\ UNCHANGED <<vsHost, fsVars, callVars, pathVars, caseVars, genVars>>

CallIsValidVSVersion ==
    \E version \in VersionStrings :
        /\ vsCall' = CallOf(VSWhereModule, "isValidVSVersion", Version(version))
        /\ vsOutcome' = Returned(isValidVSVersion(version))
        /\ vsProbes' = <<>> /\ vsSpawned' = 0 /\ vsWarnings' = 0
        /\ UNCHANGED <<vsHost, fsVars, callVars, pathVars, caseVars, genVars>>

CallGetVSGeneratorByYear ==
    \E year \in VersionStrings :
        /\ vsCall' = CallOf(VSWhereModule, "getVSGeneratorByYear", Version(year))
        /\ vsOutcome' = Returned(getVSGeneratorByYear(year))
        /\ vsProbes' = <<>> /\ vsSpawned' = 0 /\ vsWarnings' = 0
        /\ UNCHANGED <<vsHost, fsVars, callVars, pathVars, caseVars, genVars>>

InitCatalog ==
    /\ vsHost \in NonWindowsHosts
    /\ vsCall = None
    /\ vsProbes = <<>>
    /\ vsSpawned = 0
    /\ vsWarnings = 0
    /\ vsOutcome = None
    /\ InitNotConfigured
    /\ InitCall
    /\ IdlePath
    /\ IdleCase
    /\ IdleJuce

NextCatalog ==
    \/ Gen_CallIsValidVSVersion
    \/ Gen_CallGetVSGeneratorByYear
    \/ CallIsValidVSVersion
    \/ CallGetVSGeneratorByYear

\* calls of the catalog functions of both detector modules on strings of every kind
SpecCatalog == InitCatalog /\ [][NextCatalog]_vars

\* the exported catalog of a module
CatalogOf(module) ==
    IF module = GeneratorModule THEN Gen_SUPPORTED_VS_VERSIONS ELSE SUPPORTED_VS_VERSIONS

(***************************************************************************)
(* src/unnamed/part_002: the names the generator derives from --name       *)
(***************************************************************************)

MaxWords == 3
MaxWordLen == 2

LowerLetters == <<"a", "b">>
UpperLetters == <<"A", "B">>

IsLower(c) == \E i \in DOMAIN LowerLetters : LowerLetters[i] = c      \* [a-z]
IsUpper(c) == \E i \in DOMAIN UpperLetters : UpperLetters[i] = c      \* [A-Z]

\* String.prototype.toUpperCase and toLowerCase, character by character
ToUpperChar(c) ==
    IF IsLower(c) THEN UpperLetters[CHOOSE i \in DOMAIN LowerLetters : LowerLetters[i] = c] ELSE c
ToLowerChar(c) ==
    IF IsUpper(c) THEN LowerLetters[CHOOSE i \in DOMAIN UpperLetters : UpperLetters[i] = c] ELSE c
ToUpperCase(str) == [i \in DOMAIN str |-> ToUpperChar(str[i])]
ToLowerCase(str) == [i \in DOMAIN str |-> ToLowerChar(str[i])]

PascalSeparators == {" ", "_", "-"}      \* [\s_-]
SnakeSeparators == {" ", "-"}            \* [\s-]

\* what is left of str after its leading run of separators
RECURSIVE SkipRun(_, _)
SkipRun(str, separators) ==
    IF str # <<>> /\ Head(str) \in separators THEN SkipRun(Tail(str), separators) ELSE str

\* .replace(/[\s_-]+(.)?/g, (_, c) => (c ? c.toUpperCase() : ""))
RECURSIVE ReplaceSeparatorRuns(_)
ReplaceSeparatorRuns(str) ==
    IF str = <<>> THEN <<>>
    ELSE IF Head(str) \in PascalSeparators
    THEN LET rest == SkipRun(str, PascalSeparators)
         IN IF rest = <<>> THEN <<>>
            ELSE <<ToUpperChar(Head(rest))>> \o ReplaceSeparatorRuns(Tail(rest))
    ELSE <<Head(str)>> \o ReplaceSeparatorRuns(Tail(str))

\* .replace(/^(.)/, (c) => c.toUpperCase())
UpperFirst(str) ==
    IF str = <<>> THEN <<>> ELSE <<ToUpperChar(Head(str))>> \o Tail(str)

toPascalCase(str) == UpperFirst(ReplaceSeparatorRuns(str))

\* a plausible slip: the boundary between two words not marked
SplitCamel_Joined(str) == str

\* .replace(/([a-z])([A-Z])/g, "$1_$2"): matches do not overlap
RECURSIVE SplitCamel(_)
SplitCamel(str) ==
    IF Len(str) < 2 THEN str
    ELSE IF IsLower(str[1]) /\ IsUpper(str[2])
    THEN <<str[1], "_", str[2]>> \o SplitCamel(SubSeq(str, 3, Len(str)))
    ELSE <<Head(str)>> \o SplitCamel(Tail(str))

\* .replace(/[\s-]+/g, "_")
RECURSIVE UnderscoreRuns(_)
UnderscoreRuns(str) ==
    IF str = <<>> THEN <<>>
    ELSE IF Head(str) \in SnakeSeparators
    THEN <<"_">> \o UnderscoreRuns(SkipRun(str, SnakeSeparators))
    ELSE <<Head(str)>> \o UnderscoreRuns(Tail(str))

toSnakeCase(str) == ToLowerCase(UnderscoreRuns(SplitCamel(str)))

\* the words a name is made of, and the names made of words and single separators
Words == UNION { [1..n -> {"a", "b"}] : n \in 1..MaxWordLen }

RECURSIVE NamesOfWords(_)
NamesOfWords(n) ==
    IF n = 1 THEN Words
    ELSE { name \o <<sep>> \o w : name \in NamesOfWords(n - 1), sep \in {" ", "-", "_"}, w \in Words }

ProjectNames == UNION { NamesOfWords(n) : n \in 1..MaxWords }

\* main(): namePascal, nameSnake and nameUpper of the project name; the test
\* of the round trip converts the Pascal form back
DeriveNames ==
    /\ derived = None
    /\ derived' = [namePascal |-> toPascalCase(projectName),
                   nameSnake |-> toSnakeCase(projectName),
                   nameUpper |-> ToUpperCase(toSnakeCase(projectName)),
                   snakeOfPascal |-> toSnakeCase(toPascalCase(projectName))]
    /\ UNCHANGED <<projectName, fsVars, callVars, pathVars, vsVars, genVars>>

InitCase ==
    /\ projectName \in ProjectNames
    /\ derived = None
    /\ InitNotConfigured
    /\ InitCall
    /\ IdlePath
    /\ IdleJuce
    /\ IdleVS

NextCase == DeriveNames

\* the conversion of every project name of up to MaxWords words
SpecCase == InitCase /\ [][NextCase]_vars

(***************************************************************************)
(* src/unnamed/part_002: generateProject of the JUCE generator             *)
(***************************************************************************)

\* const dirs, relative to config.outputDir (<<>> is the output directory)
JuceDirs == << <<>>, <<"Source">>, <<"External">> >>

\* const juceDir
JuceDir == <<"External", "JUCE">>

\* the createFile calls in program order
JuceFiles ==
    << <<"CMakeLists.txt">>, <<"deno.json">>, <<"build.ts">>, <<"build.config.ts">>,
       <<"cmake-file-api.ts">>, <<"cmake-types.ts">>,
       <<"Source", "PluginProcessor.h">>, <<"Source", "PluginProcessor.cpp">>,
       <<"Source", "PluginEditor.h">>, <<"Source", "PluginEditor.cpp">>,
       <<".gitignore">> >>

\* what can lie under the output directory before the run
Leftovers == { {}, {<<"notes.txt">>}, {<<"CMakeLists.txt">>, <<"Source">>} }

JuceConfigs == [withGit : BOOLEAN]

\* will mkdir, git clone and git init work, and which createFile fails (0: none)
JuceEnvs ==
    [mkdirWorks : BOOLEAN, cloneWorks : BOOLEAN, gitInitWorks : BOOLEAN,
     writeFailsAt : 0..Len(JuceFiles)]

\* generateProject(config) is called
JuceGenerateProject ==
    /\ genPc = "idle"
    /\ genPc' = "check"
    /\ UNCHANGED <<genConfig, genEnv, genRoot, genDisk, genNext, genBanner, genExitCode,
                   fsVars, callVars, pathVars, vsVars, caseVars>>

\* if (await exists(config.outputDir)) { ... readDir ... Deno.exit(1) }
JuceCheckOutputDir ==
    /\ genPc = "check"
    /\ IF genRoot = "file"
       THEN genPc' = "threw" /\ UNCHANGED <<genExitCode, genNext>>      \* readDir of a file
       ELSE IF genRoot = "dir" /\ genDisk # {}
       THEN genPc' = "exited" /\ genExitCode' = 1 /\ UNCHANGED genNext
       ELSE genPc' = "dirs" /\ genNext' = 1 /\ UNCHANGED genExitCode
    /\ UNCHANGED <<genConfig, genEnv, genRoot, genDisk, genBanner,
                   fsVars, callVars, pathVars, vsVars, caseVars>>

\* for (const dir of dirs) { await ensureDir(dir); ... }
JuceEnsureDir ==
    /\ genPc = "dirs"
    /\ IF ~genEnv.mkdirWorks
       THEN genPc' = "threw" /\ UNCHANGED <<genRoot, genDisk, genNext>>
       ELSE /\ genRoot' = "dir"
            /\ genDisk' = genDisk \cup ({JuceDirs[genNext]} \ {<<>>})
            /\ IF genNext < Len(JuceDirs)
               THEN genNext' = genNext + 1 /\ UNCHANGED genPc
               ELSE genNext' = 0 /\ genPc' = "clone"
    /\ UNCHANGED <<genConfig, genEnv, genBanner, genExitCode,
                   fsVars, callVars, pathVars, vsVars, caseVars>>

\* a plausible slip: the failed clone logged and the run carried on
AfterClone_Ignored(works) == "files"

\* try { git clone } catch { ...; Deno.exit(1) }
AfterClone(works) == IF works THEN "files" ELSE "exited"

\* cloneJuce(config.outputDir, config.juceTag)
JuceCloneJuce ==
    /\ genPc = "clone"
    /\ genDisk' = genDisk \cup {<<"External">>} \cup (IF genEnv.cloneWorks THEN {JuceDir} ELSE {})
    /\ genPc' = AfterClone(genEnv.cloneWorks)
    /\ genExitCode' = IF AfterClone(genEnv.cloneWorks) = "exited" THEN 1 ELSE genExitCode
    /\ genNext' = 1
    /\ UNCHANGED <<genConfig, genEnv, genRoot, genBanner,
                   fsVars, callVars, pathVars, vsVars, caseVars>>

\* await createFile(join(config.outputDir, ...), ..., ...)
JuceCreateFile ==
    /\ genPc = "files"
    /\ IF genEnv.writeFailsAt = genNext
       THEN genPc' = "threw" /\ UNCHANGED <<genDisk, genNext>>
       ELSE /\ genDisk' = genDisk \cup {JuceFiles[genNext]}
            /\ IF genNext < Len(JuceFiles)
               THEN genNext' = genNext + 1 /\ UNCHANGED genPc
               ELSE genNext' = 0 /\ genPc' = "git"
    /\ UNCHANGED <<genConfig, genEnv, genRoot, genBanner, genExitCode,
                   fsVars, callVars, pathVars, vsVars, caseVars>>

\* if (config.withGit) { try { git init } catch { log } }
JuceGitInit ==
    /\ genPc = "git"
    /\ genDisk' = IF genConfig.withGit /\ genEnv.gitInitWorks
                  THEN genDisk \cup {<<".git">>} ELSE genDisk
    /\ genPc' = "banner"
    /\ UNCHANGED <<genConfig, genEnv, genRoot, genNext, genBanner, genExitCode,
                   fsVars, callVars, pathVars, vsVars, caseVars>>

\* console.log("... project generated successfully!")
JuceBanner ==
    /\ genPc = "banner"
    /\ genBanner' = TRUE
    /\ genPc' = "done"
    /\ UNCHANGED <<genConfig, genEnv, genRoot, genDisk, genNext, genExitCode,
                   fsVars, callVars, pathVars, vsVars, caseVars>>

InitJuce ==
    /\ genPc = "idle"
    /\ genConfig \in JuceConfigs
    /\ genEnv \in JuceEnvs
    /\ \/ genRoot = "missing" /\ genDisk = {}
       \/ genRoot = "file" /\ genDisk = {}
       \/ genRoot = "dir" /\ genDisk \in Leftovers
    /\ genNext = 0
    /\ genBanner = FALSE
    /\ genExitCode = -1
    /\ InitNotConfigured
    /\ InitCall
    /\ IdlePath
    /\ IdleCase
    /\ IdleVS

NextJuce ==
    \/ JuceGenerateProject
    \/ JuceCheckOutputDir
    \/ JuceEnsureDir
    \/ JuceCloneJuce
    \/ JuceCreateFile
    \/ JuceGitInit
    \/ JuceBanner

\* one run of the JUCE generator in every environment
SpecJuce == InitJuce /\ [][NextJuce]_vars

(***************************************************************************)
(* src/unnamed/part_001: the C++/CMake project generator                   *)
(***************************************************************************)

\* const dirs, relative to config.outputDir
CppDirs == << <<>>, <<"src">>, <<"src", "core">>, <<"src", "utils">> >>

\* the createFile calls in program order
CppFiles ==
    << <<"CMakeLists.txt">>, <<"deno.json">>, <<"build.ts">>, <<"build.config.ts">>,
       <<"cmake-file-api.ts">>, <<"cmake-types.ts">>,
       <<"src", "main.cpp">>, <<"src", "core", "core.h">>, <<"src", "core", "core.cpp">>,
       <<"src", "utils", "utils.h">>, <<"src", "utils", "utils.cpp">>,
       <<".gitignore">> >>

CppConfigs == [withGit : BOOLEAN]

\* will mkdir work, which createFile fails (0: none), and how git init ends:
\* with success, with a failure status, or not started because git is missing
CppEnvs ==
    [mkdirWorks : BOOLEAN, gitInit : {"success", "failure", "NotFound"},
     writeFailsAt : 0..Len(CppFiles)]

\* generateProject(config) is called
CppGenerateProject ==
    /\ genPc = "cppIdle"
    /\ genPc' = "cppCheck"
    /\ UNCHANGED <<genConfig, genEnv, genRoot, genDisk, genNext, genBanner, genExitCode,
                   fsVars, callVars, pathVars, vsVars, caseVars>>

\* a plausible slip: the test of entries.length left out
CppDirNotEmpty_Never(entries) == FALSE

\* entries.length > 0
CppDirNotEmpty(entries) == entries # {}

\* if (await exists(config.outputDir)) { ... readDir ... Deno.exit(1) }
CppCheckOutputDir ==
    /\ genPc = "cppCheck"
    /\ IF genRoot = "file"
       THEN genPc' = "cppThrew" /\ UNCHANGED <<genExitCode, genNext>>      \* readDir of a file
       ELSE IF genRoot = "dir" /\ CppDirNotEmpty(genDisk)
       THEN genPc' = "cppExited" /\ genExitCode' = 1 /\ UNCHANGED genNext
       ELSE genPc' = "cppDirs" /\ genNext' = 1 /\ UNCHANGED genExitCode
    /\ UNCHANGED <<genConfig, genEnv, genRoot, genDisk, genBanner,
                   fsVars, callVars, pathVars, vsVars, caseVars>>

\* for (const dir of dirs) { await ensureDir(dir); ... }
CppEnsureDir ==
    /\ genPc = "cppDirs"
    /\ IF ~genEnv.mkdirWorks
       THEN genPc' = "cppThrew" /\ UNCHANGED <<genRoot, genDisk, genNext>>
       ELSE /\ genRoot' = "dir"
            /\ genDisk' = genDisk \cup ({CppDirs[genNext]} \ {<<>>})
            /\ IF genNext < Len(CppDirs)
               THEN genNext' = genNext + 1 /\ UNCHANGED genPc
               ELSE genNext' = 1 /\ genPc' = "cppFiles"
    /\ UNCHANGED <<genConfig, genEnv, genBanner, genExitCode,
                   fsVars, callVars, pathVars, vsVars, caseVars>>

\* await createFile(join(config.outputDir, ...), ..., ...)
CppCreateFile ==
    /\ genPc = "cppFiles"
    /\ IF genEnv.writeFailsAt = genNext
       THEN genPc' = "cppThrew" /\ UNCHANGED <<genDisk, genNext>>
       ELSE /\ genDisk' = genDisk \cup {CppFiles[genNext]}
            /\ IF genNext < Len(CppFiles)
               THEN genNext' = genNext + 1 /\ UNCHANGED genPc
               ELSE genNext' = 0 /\ genPc' = "cppGit"
    /\ UNCHANGED <<genConfig, genEnv, genRoot, genBanner, genExitCode,
                   fsVars, callVars, pathVars, vsVars, caseVars>>

\* if (config.withGit) { const result = await cmd.output(); ... }: no try/catch,
\* so a git that cannot be started ends the run with the error
CppGitInit ==
    /\ genPc = "cppGit"
    /\ IF genConfig.withGit /\ genEnv.gitInit = "NotFound"
       THEN genPc' = "cppThrew" /\ UNCHANGED genDisk
       ELSE /\ genDisk' = IF genConfig.withGit /\ genEnv.gitInit = "success"
                          THEN genDisk \cup {<<".git">>} ELSE genDisk
            /\ genPc' = "cppBanner"
    /\ UNCHANGED <<genConfig, genEnv, genRoot, genNext, genBanner, genExitCode,
                   fsVars, callVars, pathVars, vsVars, caseVars>>

\* console.log("... Project generated successfully!")
CppBanner ==
    /\ genPc = "cppBanner"
    /\ genBanner' = TRUE
    /\ genPc' = "cppDone"
    /\ UNCHANGED <<genConfig, genEnv, genRoot, genDisk, genNext, genExitCode,
                   fsVars, callVars, pathVars, vsVars, caseVars>>

InitCpp ==
    /\ genPc = "cppIdle"
    /\ genConfig \in CppConfigs
    /\ genEnv \in CppEnvs
    /\ \/ genRoot = "missing" /\ genDisk = {}
       \/ genRoot = "file" /\ genDisk = {}
       \/ genRoot = "dir" /\ genDisk \in Leftovers
    /\ genNext = 0
    /\ genBanner = FALSE
    /\ genExitCode = -1
    /\ InitNotConfigured
    /\ InitCall
    /\ IdlePath
    /\ IdleCase
    /\ IdleVS

InitGenerators == InitJuce \/ InitCpp

NextGenerators ==
    \/ JuceGenerateProject
    \/ JuceCheckOutputDir
    \/ JuceEnsureDir
    \/ JuceCloneJuce
    \/ JuceCreateFile
    \/ JuceGitInit
    \/ JuceBanner
    \/ CppGenerateProject
    \/ CppCheckOutputDir
    \/ CppEnsureDir
    \/ CppCreateFile
    \/ CppGitInit
    \/ CppBanner

\* one run of either generator in every environment
SpecGenerators == InitGenerators /\ [][NextGenerators]_vars

(***************************************************************************)
(* What a call is expected to give, read off the directory itself          *)
(***************************************************************************)

KeptTypes == {"EXECUTABLE", "STATIC_LIBRARY", "SHARED_LIBRARY"}

DocAt(name) == IF <<name>> \in DOMAIN fsFiles THEN fsFiles[<<name>>] ELSE Missing

Unreadable(d) == d = Missing \/ d = Garbage

\* the index file with the lexicographically greatest name
GreatestIndex ==
    CHOOSE r \in IndexFilesPresent :
        \A q \in IndexFilesPresent \ {r} : StrLess(q[1], r[1])

\* the target references of a code model, configuration by configuration
RECURSIVE FlattenRefs(_)
FlattenRefs(configs) ==
    IF configs = <<>> THEN <<>>
    ELSE Head(configs).targets \o FlattenRefs(Tail(configs))

\* the artifact entries a target document declares, if its kind is kept
DeclaredArtifacts(d) ==
    IF d.type \in KeptTypes /\ d.hasArtifacts THEN d.artifacts ELSE <<>>

\* number of artifact entries of the kept targets among the first n references
RECURSIVE EntriesBefore(_, _)
EntriesBefore(refs, n) ==
    IF n = 0 THEN 0
    ELSE EntriesBefore(refs, n - 1) + Len(DeclaredArtifacts(DocAt(refs[n].jsonFile)))

\* the error of reading a target document that cannot be read or parsed
TargetReadError(ref) ==
    IF DocAt(ref.jsonFile) = Missing
    THEN NotFound(ReplyDir \o <<"/">> \o ref.jsonFile)
    ELSE SyntaxError

CallFinished == pc = "idle" /\ outcome # None

\* the call finished and the directory is as the call saw it
FinishedOnThisDir == CallFinished /\ ~dirty

(***************************************************************************)
(* C1: with one index file and readable documents, the call returns one    *)
(* BuildArtifact {name, type, path} per artifact entry of every target of  *)
(* kind EXECUTABLE, STATIC_LIBRARY or SHARED_LIBRARY, none for the other   *)
(* kinds or for absent or empty `artifacts`, and as many as those entries. *)
(***************************************************************************)
C1_ArtifactsOfKeptTargets ==
    (/\ FinishedOnThisDir
     /\ Cardinality(IndexFilesPresent) = 1
     /\ ~Unreadable(DocAt(CmA))
     /\ \A i \in DOMAIN FlattenRefs(DocAt(CmA).configurations) :
           ~Unreadable(DocAt(FlattenRefs(DocAt(CmA).configurations)[i].jsonFile)))
    => LET refs == FlattenRefs(DocAt(CmA).configurations)
       IN /\ outcome.status = "returned"
          /\ Len(outcome.value) = EntriesBefore(refs, Len(refs))
          /\ \A k \in DOMAIN outcome.value : outcome.value[k].type \in KeptTypes
          /\ \A i \in DOMAIN refs :
                LET d == DocAt(refs[i].jsonFile)
                IN \A j \in DOMAIN DeclaredArtifacts(d) :
                      LET a == outcome.value[EntriesBefore(refs, i - 1) + j]
                      IN /\ a.name = d.name
                         /\ a.type = d.type
                         /\ a.path = ArtifactFullPath(BuildRoot, cwd, d.artifacts[j].path)

\* a call returned two or more artifacts and dropped a MODULE or OBJECT library
\* that declares artifacts
C1_Witness ==
    /\ FinishedOnThisDir
    /\ outcome.status = "returned"
    /\ Len(outcome.value) >= 2
    /\ \E f \in TargetFiles :
          /\ \E i \in DOMAIN FlattenRefs(DocAt(CmA).configurations) :
                FlattenRefs(DocAt(CmA).configurations)[i].jsonFile = f
          /\ DocAt(f).type \in {"MODULE_LIBRARY", "OBJECT_LIBRARY"}
          /\ DocAt(f).hasArtifacts /\ Len(DocAt(f).artifacts) > 0

(***************************************************************************)
(* What the call gives when it goes by one given index document            *)
(***************************************************************************)
ExpectedOfCodeModel(cmFile) ==
    LET cm == DocAt(cmFile)
    IN IF cm = Missing THEN Threw(NotFound(ReplyDir \o <<"/">> \o cmFile))
       ELSE IF cm = Garbage THEN Threw(SyntaxError)
       ELSE LET refs == FlattenRefs(cm.configurations)
                bad == {i \in DOMAIN refs : Unreadable(DocAt(refs[i].jsonFile))}
            IN IF bad # {}
               THEN Threw(TargetReadError(refs[CHOOSE i \in bad : \A j \in bad : i <= j]))
               ELSE Returned(
                      [k \in 1..EntriesBefore(refs, Len(refs)) |->
                         LET i == CHOOSE i \in DOMAIN refs :
                                     /\ EntriesBefore(refs, i - 1) < k
                                     /\ k <= EntriesBefore(refs, i)
                             d == DocAt(refs[i].jsonFile)
                         IN [name |-> d.name, type |-> d.type,
                             path |-> ArtifactFullPath(cm.paths.build, cwd,
                                        d.artifacts[k - EntriesBefore(refs, i - 1)].path)]])

ExpectedOfIndex(indexDoc) ==
    IF "codemodel-v2" \notin DOMAIN indexDoc.reply
    THEN Threw(ErrCodemodelNotFound)
    ELSE ExpectedOfCodeModel(indexDoc.reply["codemodel-v2"].jsonFile)

(***************************************************************************)
(* C2: with two or more index files the call reads only the one whose name *)
(* is lexicographically greatest, and its result is the one that index     *)
(* alone leads to, whatever the other index files hold.                    *)
(***************************************************************************)
C2_GreatestIndexWins ==
    (FinishedOnThisDir /\ Cardinality(IndexFilesPresent) >= 2)
    => /\ indexPath = ReplyDir \o <<"/">> \o GreatestIndex[1]
       /\ \A i \in DOMAIN reads :
             \A r \in IndexFilesPresent :
                 (reads[i].op = "read" /\ reads[i].path = ReplyDir \o <<"/">> \o r[1])
                 => r = GreatestIndex
       /\ \E i \in DOMAIN reads :
             reads[i] = [op |-> "read", path |-> ReplyDir \o <<"/">> \o GreatestIndex[1]]
       /\ outcome = ExpectedOfIndex(fsFiles[GreatestIndex])

\* index-10.json and index-2.json lead to different code models; index-2 won
C2_Witness ==
    /\ FinishedOnThisDir
    /\ IndexFilesPresent =
          {<<IndexPrefix \o <<"1", "0">> \o JsonSuffix>>, <<IndexPrefix \o <<"2">> \o JsonSuffix>>}
    /\ fsFiles[<<IndexPrefix \o <<"1", "0">> \o JsonSuffix>>] = IndexDoc({"codemodel-v2", "cache-v2"}, CmA)
    /\ fsFiles[<<IndexPrefix \o <<"2">> \o JsonSuffix>>] = IndexDoc({"codemodel-v2"}, CmB)
    /\ outcome.status = "returned"
    /\ outcome # Returned(<<>>)
    /\ outcome # ExpectedOfCodeModel(CmA)

(***************************************************************************)
(* C3: without a .cmake/api/v1/reply directory the call fails with the     *)
(* "reply directory not found ... Run cmake configure first" error; it     *)
(* returns no list and reads no index, code-model or target document.      *)
(***************************************************************************)
C3_ReplyDirectoryMissing ==
    (FinishedOnThisDir /\ ~replyDirExists)
    => /\ outcome = Threw(ErrReplyDirNotFound)
       /\ \A i \in DOMAIN reads : reads[i].op = "stat"

C3_Witness ==
    /\ FinishedOnThisDir
    /\ ~replyDirExists
    /\ outcome.status = "threw"
    /\ outcome.error.message = "CMake File API reply directory not found"
    /\ Len(reads) = 1

(***************************************************************************)
(* C4: when the selected index has no "codemodel-v2" key under `reply`,    *)
(* the call fails with the "codemodel-v2 not found" error, whatever other  *)
(* object kinds the index references.                                      *)
(***************************************************************************)
C4_CodeModelKindMissing ==
    (/\ FinishedOnThisDir
     /\ replyDirExists
     /\ IndexFilesPresent # {}
     /\ "codemodel-v2" \notin DOMAIN fsFiles[GreatestIndex].reply)
    => outcome = Threw(ErrCodemodelNotFound)

\* the selected index references another object kind only; an older index
\* does reference the code model
C4_Witness ==
    /\ FinishedOnThisDir
    /\ Cardinality(IndexFilesPresent) = 2
    /\ DOMAIN fsFiles[GreatestIndex].reply = {"cache-v2"}
    /\ \E r \in IndexFilesPresent : "codemodel-v2" \in DOMAIN fsFiles[r].reply
    /\ outcome = Threw(ErrCodemodelNotFound)

(***************************************************************************)
(* C5: when the reply directory exists and holds no regular file directly  *)
(* inside it named index-*.json (files in subdirectories and directories   *)
(* of such a name do not count), the call fails with the "index file not   *)
(* found" error and returns no list.                                       *)
(***************************************************************************)
C5_IndexFileMissing ==
    (FinishedOnThisDir /\ replyDirExists /\ IndexFilesPresent = {})
    => outcome = Threw(ErrIndexNotFound)

\* a directory named index-9.json, sub/index-9.json, index-9.txt and
\* xindex-9.json are all there, and the call failed
C5_Witness ==
    /\ FinishedOnThisDir
    /\ replyDirExists
    /\ IndexFilesPresent = {}
    /\ DirNamedLikeIndex \in fsDirs
    /\ IndexInSubDir \in DOMAIN fsFiles
    /\ NotJson \in DOMAIN fsFiles
    /\ NotIndexPrefixed \in DOMAIN fsFiles
    /\ outcome = Threw(ErrIndexNotFound)


(***************************************************************************)
(* C6: if a target document the code model references cannot be read or    *)
(* parsed (any kind, any configuration, any position), the whole call      *)
(* fails and the caller gets no artifacts, not even those of the targets   *)
(* processed before it. The error is the read or parse error itself: a     *)
(* NotFound naming the file for a missing document, a SyntaxError naming   *)
(* nothing for an unparseable one.                                         *)
(***************************************************************************)
SomeTargetUnreadable ==
    /\ FinishedOnThisDir
    /\ Cardinality(IndexFilesPresent) = 1
    /\ ~Unreadable(DocAt(CmA))
    /\ \E i \in DOMAIN FlattenRefs(DocAt(CmA).configurations) :
          Unreadable(DocAt(FlattenRefs(DocAt(CmA).configurations)[i].jsonFile))

FirstUnreadableRef ==
    LET refs == FlattenRefs(DocAt(CmA).configurations)
        bad == {i \in DOMAIN refs : Unreadable(DocAt(refs[i].jsonFile))}
    IN refs[CHOOSE i \in bad : \A j \in bad : i <= j]

C8_RepeatedCallSameResult ==
    (CallFinished /\ prev # None /\ ~changedBetween) => outcome = prev

\* two calls on a directory with two index files that lead to different code
\* models; both calls returned artifacts
C8_Witness ==
    /\ CallFinished
    /\ prev # None
    /\ ~changedBetween
    /\ ~dirty
    /\ Cardinality(IndexFilesPresent) = 2
    /\ \E r \in IndexFilesPresent : fsFiles[r] = IndexDoc({"codemodel-v2", "cache-v2"}, CmA)
    /\ \E r \in IndexFilesPresent : fsFiles[r] = IndexDoc({"codemodel-v2"}, CmB)
    /\ outcome.status = "returned"
    /\ Len(outcome.value) > 0


(***************************************************************************)
(* The artifact path computation on every short declared path              *)
(***************************************************************************)

PathChars == {"/", "\\", ".", "a"}

DeclaredPaths == UNION { [1..k -> PathChars] : k \in 0..MaxPathLen }

InitPath ==
    /\ InitNotConfigured
    /\ InitCall
    /\ IdleVS
    /\ IdleCase
    /\ IdleJuce
    /\ cwd \in {<<"/", "w">>, <<"/", "r", "/", "b", "/", "w">>}
    /\ buildRoot \in {BuildRoot, <<"/", "r">>}
    /\ declaredPath \in DeclaredPaths
    /\ fullPath = <<>>

\* lines 312-321 for one artifact entry
ComputeArtifactPath ==
    /\ fullPath = <<>>
    /\ fullPath' = ArtifactFullPath(buildRoot, cwd, declaredPath)
    /\ UNCHANGED <<cwd, buildRoot, declaredPath, fsVars, callVars, vsVars, caseVars, genVars>>

NextPath == ComputeArtifactPath

SpecPath == InitPath /\ [][NextPath]_vars

\* str.split on both separators
RECURSIVE SplitAnySeparator(_, _, _)
SplitAnySeparator(s, cur, acc) ==
    IF s = <<>> THEN Append(acc, cur)
    ELSE IF Head(s) \in {"/", "\\"} THEN SplitAnySeparator(Tail(s), <<>>, Append(acc, cur))
    ELSE SplitAnySeparator(Tail(s), Append(cur, Head(s)), acc)

\* the directory reached from `stack` by following the segments one by one
RECURSIVE Descend(_, _)
Descend(stack, segs) ==
    IF segs = <<>> THEN stack
    ELSE IF Head(segs) = <<>> \/ Head(segs) = <<".">> THEN Descend(stack, Tail(segs))
    ELSE IF Head(segs) = DotDot
    THEN Descend(IF stack = <<>> THEN stack ELSE SubSeq(stack, 1, Len(stack) - 1), Tail(segs))
    ELSE Descend(Append(stack, Head(segs)), Tail(segs))

\* the names of an absolute path, a trailing separator dropped
NamesOf(path) == SelectSeq(SplitSlash(path, <<>>, <<>>), LAMBDA n : n # <<>>)

(***************************************************************************)
(* C7: every BuildArtifact.path is absolute and normalized, and is the     *)
(* declared path resolved against codeModel.paths.build (an already        *)
(* absolute declared path is placed under the build root as well); the     *)
(* working directory plays no part. This holds for `.` and `..` segments,  *)
(* backslash separators and absolute declared paths.                       *)
(***************************************************************************)
C7_PathAbsoluteNormalizedUnderBuildRoot ==
    fullPath # <<>>
    => LET segs == SplitSlash(fullPath, <<>>, <<>>)
       IN /\ Len(fullPath) >= 1 /\ fullPath[1] = "/"
          /\ \A i \in DOMAIN fullPath : fullPath[i] # "\\"
          /\ \A i \in 2..Len(segs) :
                /\ segs[i] # <<".">>
                /\ segs[i] # DotDot
                /\ (segs[i] = <<>> => i = Len(segs))
          /\ NamesOf(fullPath) =
                Descend(NamesOf(buildRoot), SplitAnySeparator(declaredPath, <<>>, <<>>))

\* ..\a declared, build root /r/b: the artifact is /r/a
C7_Witness ==
    /\ declaredPath = <<".", ".", "\\", "a">>
    /\ buildRoot = BuildRoot
    /\ fullPath = <<"/", "r", "/", "a">>

(***************************************************************************)
(* Claims about getDefaultVSGenerator with a requested version             *)
(***************************************************************************)

CatalogYears == {"2026", "2022", "2019"}

\* a call of getDefaultVSGenerator (of either module) with a version given has ended
GaveVersionToGetDefault ==
    /\ vsCall # None
    /\ vsCall.op = "getDefaultVSGenerator"
    /\ vsCall.arg.given

\* C9: a call of getDefaultVSGenerator with a requested version of the catalog
\* ("2026", "2022", "2019") returns that entry's generator string
\* ("Visual Studio 18 2026", "Visual Studio 17 2022", "Visual Studio 16 2019")
\* and does no detection: it probes no path and starts no locator process.
C9_CatalogVersionGivesGenerator ==
    (GaveVersionToGetDefault /\ vsCall.arg.value \in CatalogYears) =>
        /\ vsOutcome = Returned(CASE vsCall.arg.value = "2026" -> "Visual Studio 18 2026"
                                  [] vsCall.arg.value = "2022" -> "Visual Studio 17 2022"
                                  [] vsCall.arg.value = "2019" -> "Visual Studio 16 2019")
        /\ vsProbes = <<>>
        /\ vsSpawned = 0

\* a call of src/generator/vs-detector.ts with "2026" that ended with an error
C9_Witness ==
    /\ GaveVersionToGetDefault
    /\ vsCall.module = GeneratorModule
    /\ vsCall.arg.value = "2026"
    /\ vsOutcome.status = "threw"

\* C10: a call of getDefaultVSGenerator with a requested version that is given
\* and is not a catalog year ("2015", "invalid", the empty string, ...) fails
\* with the "Invalid Visual Studio version" error whose message lists the
\* supported versions as 2026, 2022, 2019; it never returns a generator.
C10_NonCatalogVersionRejected ==
    (GaveVersionToGetDefault /\ vsCall.arg.value \notin CatalogYears) =>
        /\ vsOutcome.status = "threw"
        /\ vsOutcome.error.message =
              "Invalid Visual Studio version: " \o vsCall.arg.value
                  \o ". Supported: 2026, 2022, 2019"

\* a call with the empty string given that returned a generator
C10_Witness ==
    /\ GaveVersionToGetDefault
    /\ vsCall.arg.value = ""
    /\ vsOutcome.status = "returned"


(***************************************************************************)
(* Claims about the catalog                                                *)
(***************************************************************************)

\* C11: isValidVSVersion returns true exactly for the strings "2026", "2022"
\* and "2019" and false for every other string ("2015", "invalid", "18", "17",
\* the empty string, ...).
C11_ValidExactlyForCatalogYears ==
    (vsCall # None /\ vsCall.op = "isValidVSVersion") =>
        vsOutcome = Returned(vsCall.arg.value \in CatalogYears)

\* isValidVSVersion of src/generator/vs-detector.ts has taken "18" for a year
C11_Witness ==
    /\ vsCall # None
    /\ vsCall.op = "isValidVSVersion"
    /\ vsCall.module = GeneratorModule
    /\ vsCall.arg.value = "18"
    /\ vsOutcome = Returned(TRUE)

\* C12: the catalog SUPPORTED_VS_VERSIONS of the module that was called is the
\* table of exactly three entries, newest first: ("2026", "18", "Visual Studio
\* 18 2026"), ("2022", "17", "Visual Studio 17 2022"), ("2019", "16", "Visual
\* Studio 16 2019"), and it is that table after every operation.
C12_CatalogIsTheDocumentedTable ==
    vsCall # None =>
        CatalogOf(vsCall.module) =
            << [year |-> "2026", version |-> "18", generator |-> "Visual Studio 18 2026"],
               [year |-> "2022", version |-> "17", generator |-> "Visual Studio 17 2022"],
               [year |-> "2019", version |-> "16", generator |-> "Visual Studio 16 2019"] >>

\* a function of src/generator/vs-detector.ts has run on its catalog, whose
\* first entry has the year "18"
C12_Witness ==
    /\ vsCall # None
    /\ vsCall.module = GeneratorModule
    /\ Len(CatalogOf(vsCall.module)) = 3
    /\ CatalogOf(vsCall.module)[1].year = "18"

(***************************************************************************)
(* Claims about detection                                                  *)
(***************************************************************************)

\* a call of the named function (of either module) has ended
Called(op) == vsCall # None /\ vsCall.op = op

\* C13: on a host whose operating system is not Windows, detectInstalledVSVersions
\* returns the empty list without probing any path, without starting any
\* process and without an error, and getLatestVSVersion returns null.
C13_NonWindowsDetectsNothing ==
    (vsHost # None /\ vsHost.os # "windows") =>
        /\ Called("detectInstalledVSVersions") =>
              /\ vsOutcome = Returned(<<>>)
              /\ vsProbes = <<>>
              /\ vsSpawned = 0
        /\ Called("getLatestVSVersion") =>
              /\ vsOutcome = Returned(None)
              /\ vsProbes = <<>>
              /\ vsSpawned = 0

\* detectInstalledVSVersions of the vswhere module has returned on a Linux host
\* that has an installation directory on disk
C13_Witness ==
    /\ Called("detectInstalledVSVersions")
    /\ vsCall.module = VSWhereModule
    /\ vsHost.os = "linux"
    /\ \E q \in DOMAIN vsHost.dirs : vsHost.dirs[q] = "dirWithTools"
    /\ vsOutcome = Returned(<<>>)

\* what detectInstalledVSVersions of a module gives on a host
DetectionOf(module, host) ==
    IF module = GeneratorModule
    THEN Gen_detectInstalledVSVersions(host)
    ELSE detectInstalledVSVersions(host)

\* a call of getDefaultVSGenerator without an argument has ended
CalledGetDefaultWithoutVersion ==
    Called("getDefaultVSGenerator") /\ ~vsCall.arg.given

\* C14: a call of getDefaultVSGenerator with no requested version on a host
\* where detection yields no instance (not Windows, or Windows with nothing
\* found by either strategy) returns the fallback "Visual Studio 17 2022"
\* after a warning, and does not fail.
C14_NothingDetectedGivesFallback ==
    (CalledGetDefaultWithoutVersion /\ DetectionOf(vsCall.module, vsHost).versions = <<>>) =>
        /\ vsOutcome = Returned("Visual Studio 17 2022")
        /\ vsWarnings >= 1

\* on Windows vswhere.exe ran, reported nothing usable, the known paths were
\* probed in vain, and the fallback was returned
C14_Witness ==
    /\ CalledGetDefaultWithoutVersion
    /\ vsCall.module = VSWhereModule
    /\ vsHost.os = "windows"
    /\ vsSpawned = 1
    /\ Len(vsProbes) > 1
    /\ vsOutcome = Returned("Visual Studio 17 2022")

\* C15: a call of getDefaultVSGenerator with no requested version on a host
\* where detection returns at least one instance returns the generator of the
\* first instance of the detection result, and no other detected instance has
\* a higher toolchain version number than that first one.
C15_DetectedNewestGivesGenerator ==
    (CalledGetDefaultWithoutVersion /\ DetectionOf(vsCall.module, vsHost).versions # <<>>) =>
        LET installed == DetectionOf(vsCall.module, vsHost).versions
        IN /\ vsOutcome = Returned(installed[1].generator)
           /\ \A i \in DOMAIN installed :
                 ParseInt(installed[i].version) <= ParseInt(installed[1].version)

\* vswhere.exe listed Visual Studio 2019 before Visual Studio 2026 and the
\* generator of 2026 was returned
C15_Witness ==
    /\ CalledGetDefaultWithoutVersion
    /\ vsCall.module = VSWhereModule
    /\ vsSpawned = 1
    /\ Len(vsHost.vswhere.blocks) = 2
    /\ vsHost.vswhere.blocks[1].catalog_productLineVersion = "2019"
    /\ vsHost.vswhere.blocks[2].catalog_productLineVersion = "18"
    /\ vsOutcome = Returned("Visual Studio 18 2026")

\* the locator stage of the vswhere module ends without an instance on this
\* host: vswhere.exe cannot be found or examined, exits non-zero, or prints no
\* block with an id, a path and a product line of the map
LocatorGivesNothing(host) ==
    \/ host.vswhere.stat # "ok"
    \/ host.vswhere.code # 0
    \/ \A i \in DOMAIN host.vswhere.blocks :
          \/ host.vswhere.blocks[i].instanceId = ""
          \/ host.vswhere.blocks[i].installationPath = ""
          \/ host.vswhere.blocks[i].catalog_productLineVersion \notin {"18", "2022", "2019"}

\* something on the way of the call failed: a probed path could not be
\* examined, the locator exited non-zero, or a block of its output was dropped
SomethingFailed ==
    \/ \E i \in DOMAIN vsProbes : ~Stat(vsHost, vsProbes[i]).ok
    \/ vsSpawned = 1 /\ vsHost.vswhere.code # 0
    \/ vsSpawned = 1 /\ ~LocatorGivesNothing(vsHost)
          /\ \E i \in DOMAIN vsHost.vswhere.blocks :
                vsHost.vswhere.blocks[i].catalog_productLineVersion \notin {"18", "2022", "2019"}

C19_OneInstancePerVersion ==
    (Called("detectInstalledVSVersions") /\ vsOutcome.status = "returned") =>
        \A i \in DOMAIN vsOutcome.value : \A j \in DOMAIN vsOutcome.value :
            vsOutcome.value[i].version = vsOutcome.value[j].version => i = j

\* src/generator/vs-detector.ts has returned the same version twice, found
\* under Program Files and under Program Files (x86)
C19_Witness ==
    /\ Called("detectInstalledVSVersions")
    /\ vsCall.module = GeneratorModule
    /\ Len(vsOutcome.value) = 2
    /\ vsOutcome.value[1].version = vsOutcome.value[2].version
    /\ vsOutcome.value[1].path # vsOutcome.value[2].path

\* the returned list of the call comes from known-path probing
FromKnownPaths ==
    /\ Called("detectInstalledVSVersions")
    /\ vsOutcome.status = "returned"
    /\ vsCall.module = VSWhereModule => LocatorGivesNothing(vsHost)

\* C20: in known-path probing an installation directory is reported only if
\* it exists as a directory and its marker subpath VC/Tools/MSVC exists too.
C20_ReportedOnlyWithMarker ==
    FromKnownPaths =>
        \A i \in DOMAIN vsOutcome.value :
            /\ Stat(vsHost, vsOutcome.value[i].path).ok
            /\ Stat(vsHost, vsOutcome.value[i].path).isDirectory
            /\ Stat(vsHost, vsOutcome.value[i].path \o VCToolsMarker).ok

\* the vswhere module has reported a directory that has no VC/Tools/MSVC
C20_Witness ==
    /\ FromKnownPaths
    /\ vsCall.module = VSWhereModule
    /\ \E i \in DOMAIN vsOutcome.value :
          /\ Stat(vsHost, vsOutcome.value[i].path).isDirectory
          /\ ~Stat(vsHost, vsOutcome.value[i].path \o VCToolsMarker).ok

(***************************************************************************)
(* Claims about the project generator                                      *)
(***************************************************************************)

\* the words of a name, cut at its separators
RECURSIVE WordsOf(_, _)
WordsOf(name, word) ==
    IF name = <<>> THEN <<word>>
    ELSE IF Head(name) \in {" ", "-", "_"} THEN <<word>> \o WordsOf(Tail(name), <<>>)
    ELSE WordsOf(Tail(name), Append(word, Head(name)))

RECURSIVE JoinWith(_, _)
JoinWith(words, sep) ==
    IF Len(words) = 1 THEN words[1]
    ELSE words[1] \o <<sep>> \o JoinWith(Tail(words), sep)

\* every word of the name but the last has at least two letters
OnlyLastWordShort(name) ==
    \A i \in 1..(Len(WordsOf(name, <<>>)) - 1) : Len(WordsOf(name, <<>>)[i]) >= 2

\* C18 (as stated): for every name of lowercase words joined by single spaces,
\* hyphens or underscores, toSnakeCase(toPascalCase(name)) is all lowercase and
\* is the words joined by underscores, the same string as toSnakeCase(name),
\* and toPascalCase(name) starts with an uppercase letter.
C18_RoundTripGivesSnakeCase ==
    derived # None =>
        /\ derived.snakeOfPascal = ToLowerCase(derived.snakeOfPascal)
        /\ derived.snakeOfPascal = JoinWith(WordsOf(projectName, <<>>), "_")
        /\ derived.snakeOfPascal = derived.nameSnake
        /\ IsUpper(derived.namePascal[1])

\* C18 (as amended): the same, with the two equalities only for names in which
\* every word but the last has at least two letters.
C18_RoundTripOfLongWords ==
    derived # None =>
        /\ derived.snakeOfPascal = ToLowerCase(derived.snakeOfPascal)
        /\ derived.nameSnake = JoinWith(WordsOf(projectName, <<>>), "_")
        /\ IsUpper(derived.namePascal[1])
        /\ OnlyLastWordShort(projectName) =>
              /\ derived.snakeOfPascal = JoinWith(WordsOf(projectName, <<>>), "_")
              /\ derived.snakeOfPascal = derived.nameSnake

\* a name of three words with all three separators has been converted
C18_Witness ==
    /\ derived # None
    /\ Len(WordsOf(projectName, <<>>)) = 3
    /\ OnlyLastWordShort(projectName)
    /\ \E i \in DOMAIN projectName : projectName[i] = "_"
    /\ \E i \in DOMAIN projectName : projectName[i] = "-"
    /\ derived.snakeOfPascal = derived.nameSnake

\* the project structure of the README of the generator
DocumentedStructure ==
    { <<"CMakeLists.txt">>, <<"deno.json">>, <<"build.ts">>, <<"build.config.ts">>,
      <<"cmake-file-api.ts">>, <<"cmake-types.ts">>, <<".gitignore">>,
      <<"External", "JUCE">>,
      <<"Source", "PluginProcessor.h">>, <<"Source", "PluginProcessor.cpp">>,
      <<"Source", "PluginEditor.h">>, <<"Source", "PluginEditor.cpp">> }

\* C17: whenever generateProject of the JUCE generator has printed its success
\* banner, the output directory holds every file of the documented project
\* structure and the External/JUCE clone, with and without --with-git and
\* whether or not git init worked.
C17_BannerMeansWholeStructure ==
    genBanner => (genRoot = "dir" /\ DocumentedStructure \subseteq genDisk)

\* the banner was printed after a git init that failed
C17_Witness ==
    /\ genBanner
    /\ genConfig.withGit
    /\ ~genEnv.gitInitWorks
    /\ <<".git">> \notin genDisk

(***************************************************************************)
(* Claims about the two strategies of the vswhere module                   *)
(***************************************************************************)

\* detectInstalledVSVersions of the vswhere module has ended on a Windows host
DetectedOnWindows ==
    /\ Called("detectInstalledVSVersions")
    /\ vsCall.module = VSWhereModule
    /\ vsHost.os = "windows"

\* C21: on Windows, detectInstalledVSVersions probes the known paths exactly
\* when the locator strategy yields no usable instance (vswhere.exe absent or
\* unreadable, a non-zero exit, or no record that maps to a catalog entry),
\* and then returns the known-path result; when the locator yields at least
\* one mapped instance no known path is probed and the locator result is
\* returned.
C21_KnownPathsExactlyWhenLocatorGivesNothing ==
    DetectedOnWindows =>
        IF LocatorGivesNothing(vsHost)
        THEN /\ vsOutcome = Returned(detectVSByKnownPaths(vsHost).versions)
             /\ vsProbes = <<VSWherePath>> \o detectVSByKnownPaths(vsHost).probes
             /\ Len(vsProbes) > 1
        ELSE /\ vsOutcome = Returned(detectVSByVSWhere(vsHost).versions)
             /\ vsOutcome.value # <<>>
             /\ vsProbes = <<VSWherePath>>
             /\ vsSpawned = 1

\* vswhere.exe could not be found, and the Visual Studio 2019 found under a
\* known path was returned
C21_Witness ==
    /\ DetectedOnWindows
    /\ vsHost.vswhere.stat = "NotFound"
    /\ vsSpawned = 0
    /\ Len(vsProbes) > 1
    /\ vsOutcome.status = "returned"
    /\ Len(vsOutcome.value) = 1
    /\ vsOutcome.value[1].year = "2019"

\* C22: the list returned by detectInstalledVSVersions is ordered newest
\* supported version first, as the catalog is: for any two positions i < j the
\* version at i is not older than the version at j, whichever strategy gave
\* the list and in whatever order vswhere.exe printed its instances.
C22_NewestFirst ==
    (Called("detectInstalledVSVersions") /\ vsOutcome.status = "returned") =>
        \A i \in DOMAIN vsOutcome.value : \A j \in DOMAIN vsOutcome.value :
            i < j => ParseInt(vsOutcome.value[i].version) >= ParseInt(vsOutcome.value[j].version)

\* vswhere.exe printed Visual Studio 2019 before Visual Studio 2026 and the
\* returned list has 2026 first
C22_Witness ==
    /\ DetectedOnWindows
    /\ Len(vsHost.vswhere.blocks) = 2
    /\ vsHost.vswhere.blocks[1].catalog_productLineVersion = "2019"
    /\ vsHost.vswhere.blocks[2].catalog_productLineVersion = "18"
    /\ vsOutcome.status = "returned"
    /\ Len(vsOutcome.value) = 2
    /\ vsOutcome.value[1].version = "18"
    /\ vsOutcome.value[2].version = "16"

\* isValidVSVersion of the module that was called
ValidIn(module, year) ==
    IF module = GeneratorModule THEN Gen_isValidVSVersion(year) ELSE isValidVSVersion(year)

\* a block of the output of vswhere.exe that has an id, a path and a product
\* line of the map
UsableBlock(b) ==
    /\ b.instanceId # ""
    /\ b.installationPath # ""
    /\ b.catalog_productLineVersion \in {"18", "2022", "2019"}

\* the year the documentation gives for a product line
YearOfProductLine(plv) == IF plv = "18" THEN "2026" ELSE plv

\* C23: every instance returned by detectInstalledVSVersions has a year that
\* isValidVSVersion accepts and an install path; a record of vswhere.exe whose
\* product line does not map to a catalog entry, or that lacks instanceId or
\* installationPath, never appears in the result.
C23_OnlyValidInstances ==
    (Called("detectInstalledVSVersions") /\ vsOutcome.status = "returned") =>
        /\ \A i \in DOMAIN vsOutcome.value :
              /\ ValidIn(vsCall.module, vsOutcome.value[i].year)
              /\ "path" \in DOMAIN vsOutcome.value[i]
        /\ (DetectedOnWindows /\ ~LocatorGivesNothing(vsHost)) =>
              /\ Len(vsOutcome.value) =
                    Cardinality({k \in DOMAIN vsHost.vswhere.blocks :
                                    UsableBlock(vsHost.vswhere.blocks[k])})
              /\ \A i \in DOMAIN vsOutcome.value :
                    /\ vsOutcome.value[i].path # ""
                    /\ \E k \in DOMAIN vsHost.vswhere.blocks :
                          /\ UsableBlock(vsHost.vswhere.blocks[k])
                          /\ vsOutcome.value[i].year =
                                YearOfProductLine(vsHost.vswhere.blocks[k].catalog_productLineVersion)
                          /\ vsOutcome.value[i].path = vsHost.vswhere.blocks[k].installationPath

\* vswhere.exe printed a Visual Studio 2017 and a Visual Studio 2022, and only
\* the latter was returned
C23_Witness ==
    /\ DetectedOnWindows
    /\ Len(vsHost.vswhere.blocks) = 2
    /\ vsHost.vswhere.blocks[1].catalog_productLineVersion = "2017"
    /\ vsHost.vswhere.blocks[2].catalog_productLineVersion = "2022"
    /\ UsableBlock(vsHost.vswhere.blocks[2])
    /\ vsOutcome.status = "returned"
    /\ Len(vsOutcome.value) = 1
    /\ vsOutcome.value[1].year = "2022"

(***************************************************************************)
(* Claims about what a call of parseFileAPI does to and with the disk      *)
(***************************************************************************)

\* C24: parseFileAPI is read-only: no step of a call, of one that succeeds or
\* of one that fails, changes the set of files of the reply directory or the
\* contents of the index, code-model and target documents.
C24_CallIsReadOnly ==
    [][(pc # "idle" \/ pc' # "idle") => UNCHANGED <<replyDirExists, fsFiles, fsDirs>>]_vars

\* a call has read the index and the code model and failed, on a reply
\* directory that still has its files
C24_Witness ==
    /\ FinishedOnThisDir
    /\ outcome.status = "threw"
    /\ Len(reads) >= 4
    /\ replyDirExists
    /\ IndexFilesPresent # {}

\* the k-th operation on the disk of a call, as the code orders them
ExpectedStep(k) ==
    CASE k = 1 -> [op |-> "stat", path |-> ReplyDir]
      [] k = 2 -> [op |-> "walk", path |-> ReplyDir]
      [] k = 3 -> [op |-> "read", path |-> indexPath]
      [] k = 4 -> [op |-> "read", path |-> codemodelPath]
      [] OTHER -> [op |-> "read",
                   path |-> Join(<<ReplyDir, FlattenRefs(codemodel.configurations)[k - 4].jsonFile>>)]

\* the k-th operation of the call went well, on the directory as it is
StepSucceeded(k) ==
    CASE k = 1 -> replyDirExists
      [] k = 2 -> IndexFilesPresent # {}
      [] k = 3 -> ReadJson(reads[k].path).ok
                    /\ "codemodel-v2" \in DOMAIN ReadJson(reads[k].path).doc.reply
      [] OTHER -> ReadJson(reads[k].path).ok

\* C25: within one call of parseFileAPI the steps run strictly in sequence:
\* the stat of the reply directory, the selection and the read of the index,
\* the read of the code model, then the target documents one at a time in
\* code-model order. No target document is read before the code model is
\* parsed, each step has ended before the next begins, and after a step that
\* fails no later read happens.
C25_StepsInSequence ==
    /\ \A k \in DOMAIN reads : reads[k] = ExpectedStep(k)
    /\ Len(reads) >= 5 =>
          /\ codemodel # None
          /\ Len(reads) - 4 <= Len(FlattenRefs(codemodel.configurations))
    /\ pc = "stat" => Len(reads) = 0
    /\ pc = "walk" => Len(reads) = 1
    /\ pc = "readIndex" => Len(reads) = 2
    /\ pc = "readCodemodel" => Len(reads) = 3
    /\ pc = "readTarget" =>
          /\ codemodel # None
          /\ Len(reads) = 3 + Len(FlattenRefs(SubSeq(codemodel.configurations, 1, ci - 1))) + ti
    /\ ~dirty =>
          /\ \A k \in 1..(Len(reads) - 1) : StepSucceeded(k)
          /\ (CallFinished /\ outcome.status = "threw") => ~StepSucceeded(Len(reads))
          /\ (CallFinished /\ outcome.status = "returned") =>
                /\ Len(reads) = 4 + Len(FlattenRefs(codemodel.configurations))
                /\ StepSucceeded(Len(reads))

\* a call has read two different target documents after the code model and
\* returned
C25_Witness ==
    /\ FinishedOnThisDir
    /\ outcome.status = "returned"
    /\ Len(reads) = 6
    /\ reads[5].path # reads[6].path
    /\ reads[4].path = codemodelPath

\* what a call gives on the reply directory as it is now
ExpectedOfDirectory ==
    IF ~replyDirExists THEN Threw(ErrReplyDirNotFound)
    ELSE IF IndexFilesPresent = {} THEN Threw(ErrIndexNotFound)
    ELSE ExpectedOfIndex(fsFiles[GreatestIndex])

\* C26: parseFileAPI keeps no state between calls: when the reply directory
\* has changed between two calls (cmake has written an index file with a
\* greater name that leads to another code model, or the build directory was
\* removed), the second call examines the directory again and gives what the
\* new state leads to, never the result of the first call.
C26_SecondCallSeesNewState ==
    (FinishedOnThisDir /\ prev # None /\ changedBetween) =>
        /\ Len(reads) >= 1
        /\ reads[1] = [op |-> "stat", path |-> ReplyDir]
        /\ outcome = ExpectedOfDirectory

\* the first call returned the artifacts of one code model; cmake then wrote
\* a greater index that leads to the other, and the second call returned the
\* artifacts of that one
C26_Witness ==
    /\ FinishedOnThisDir
    /\ prev # None
    /\ changedBetween
    /\ prev.status = "returned"
    /\ outcome.status = "returned"
    /\ Len(prev.value) > 0
    /\ Len(outcome.value) > 0
    /\ outcome # prev
    /\ Cardinality(IndexFilesPresent) = 2

\* the BuildArtifacts of the artifact entries of one target document, in the
\* order of its `artifacts` list
ArtifactsOfTarget(d) ==
    [j \in DOMAIN DeclaredArtifacts(d) |->
        [name |-> d.name, type |-> d.type,
         path |-> ArtifactFullPath(BuildRoot, cwd, d.artifacts[j].path)]]

\* those of a list of target references, reference by reference
RECURSIVE ArtifactsOfRefs(_)
ArtifactsOfRefs(refs) ==
    IF refs = <<>> THEN <<>>
    ELSE ArtifactsOfTarget(DocAt(Head(refs).jsonFile)) \o ArtifactsOfRefs(Tail(refs))

\* those of a list of configurations, configuration by configuration
RECURSIVE ArtifactsOfConfigs(_)
ArtifactsOfConfigs(configs) ==
    IF configs = <<>> THEN <<>>
    ELSE ArtifactsOfRefs(Head(configs).targets) \o ArtifactsOfConfigs(Tail(configs))

\* C27: the artifacts parseFileAPI returns are ordered by configuration order
\* of the code model, then by target-reference order within the configuration,
\* then by position in the target's `artifacts` list; a target that appears in
\* several configurations contributes its artifacts once per configuration.
C27_ConfigurationThenReferenceOrder ==
    (FinishedOnThisDir /\ outcome.status = "returned") =>
        LET configs == DocAt(CmA).configurations
        IN /\ outcome.value = ArtifactsOfConfigs(configs)
           /\ \A c \in DOMAIN configs :
                 Len(outcome.value) = Len(configs) * Len(ArtifactsOfRefs(configs[c].targets))

\* two configurations that each list app and core: app's artifact, core's two
\* artifacts, and the same three again
C27_Witness ==
    /\ FinishedOnThisDir
    /\ outcome.status = "returned"
    /\ Len(DocAt(CmA).configurations) = 2
    /\ Len(outcome.value) = 6
    /\ outcome.value[1].name = "app"
    /\ outcome.value[2].name = "core"
    /\ outcome.value[3].name = "core"
    /\ outcome.value[2].path # outcome.value[3].path
    /\ outcome.value[4] = outcome.value[1]
    /\ outcome.value[5] = outcome.value[2]
    /\ outcome.value[6] = outcome.value[3]

(***************************************************************************)
(* Claims about the generators and an output directory that is in use      *)
(***************************************************************************)

\* the run of a generator is at its test of the output directory
AtDirectoryCheck == genPc = "check" \/ genPc = "cppCheck"

\* the run has not yet passed the test of the output directory, or has ended
\* at it
NotPastDirectoryCheck ==
    \/ genPc \in {"idle", "check", "cppIdle", "cppCheck"}
    \/ genPc \in {"exited", "cppExited"} /\ genNext = 0

\* C28: generateProject of the C++/CMake generator and of the JUCE generator
\* refuses an output directory that exists and has at least one entry: it
\* exits with code 1 before it creates a directory, clones or writes a file,
\* so what is in the directory stays as it is; with a missing path or an
\* existing empty directory the run goes on to generation.
C28_NonEmptyDirectoryRefused ==
    [][/\ (AtDirectoryCheck /\ genRoot = "dir" /\ genDisk # {}) =>
              /\ genPc' = (IF genPc = "check" THEN "exited" ELSE "cppExited")
              /\ genExitCode' = 1
              /\ UNCHANGED <<genRoot, genDisk>>
       /\ (AtDirectoryCheck /\ (genRoot = "missing" \/ (genRoot = "dir" /\ genDisk = {}))) =>
              /\ genPc' = (IF genPc = "check" THEN "dirs" ELSE "cppDirs")
              /\ genExitCode' = -1
       /\ NotPastDirectoryCheck => UNCHANGED <<genRoot, genDisk>>]_vars

\* the C++/CMake generator has exited with code 1 on a directory that holds
\* notes.txt, and notes.txt is all the directory holds
C28_Witness ==
    /\ genPc = "cppExited"
    /\ genExitCode = 1
    /\ genRoot = "dir"
    /\ genDisk = {<<"notes.txt">>}

(***************************************************************************)
(* Claims that relate the generator strings to the catalog                 *)
(***************************************************************************)

\* the entry of a module's catalog with this year, generator and version
InCatalog(module, year, version, generator) ==
    \E i \in DOMAIN CatalogOf(module) :
        CatalogOf(module)[i] = [year |-> year, version |-> version, generator |-> generator]

\* C29: every string getDefaultVSGenerator returns (for a version given, for
\* an instance vswhere.exe reported, for an instance found under a known path,
\* or as the fallback) is the generator field of an entry of
\* SUPPORTED_VS_VERSIONS, and the year, version and generator of every
\* detected instance are those of the catalog entry of its year.
C29_GeneratorsComeFromCatalog ==
    /\ (Called("getDefaultVSGenerator") /\ vsOutcome.status = "returned") =>
          \E i \in DOMAIN CatalogOf(vsCall.module) :
              CatalogOf(vsCall.module)[i].generator = vsOutcome.value
    /\ (Called("detectInstalledVSVersions") /\ vsOutcome.status = "returned") =>
          \A k \in DOMAIN vsOutcome.value :
              InCatalog(vsCall.module, vsOutcome.value[k].year, vsOutcome.value[k].version,
                        vsOutcome.value[k].generator)
    /\ (Called("getLatestVSVersion") /\ vsOutcome.status = "returned" /\ vsOutcome.value # None) =>
          InCatalog(vsCall.module, vsOutcome.value.year, vsOutcome.value.version,
                    vsOutcome.value.generator)

\* vswhere.exe reported Visual Studio 2026 alone and detectInstalledVSVersions
\* returned it with the year, version and generator of the catalog
C29_Witness ==
    /\ DetectedOnWindows
    /\ vsSpawned = 1
    /\ ~LocatorGivesNothing(vsHost)
    /\ vsOutcome.status = "returned"
    /\ Len(vsOutcome.value) = 1
    /\ vsOutcome.value[1].year = "2026"
    /\ vsOutcome.value[1].version = "18"
    /\ vsOutcome.value[1].generator = "Visual Studio 18 2026"

(***************************************************************************)
(* The two detector modules side by side                                   *)
(***************************************************************************)

NextPure ==
    \/ Gen_CallIsValidVSVersion
    \/ Gen_CallGetVSGeneratorByYear
    \/ Gen_CallGetDefaultVSGenerator
    \/ CallIsValidVSVersion
    \/ CallGetVSGeneratorByYear
    \/ CallGetDefaultVSGenerator

\* calls of the functions that take a version string, of both modules
SpecPure == InitCatalog /\ [][NextPure]_vars

OtherModule(module) == IF module = GeneratorModule THEN VSWhereModule ELSE GeneratorModule

\* how the call of a function of a module with a version string ends
OutcomeIn(module, op, arg, host) ==
    CASE op = "isValidVSVersion" -> Returned(ValidIn(module, arg.value))
      [] op = "getVSGeneratorByYear" ->
            Returned(IF module = GeneratorModule THEN Gen_getVSGeneratorByYear(arg.value)
                     ELSE getVSGeneratorByYear(arg.value))
      [] op = "getDefaultVSGenerator" ->
            IF module = GeneratorModule THEN Gen_getDefaultVSGenerator(host, arg).outcome
            ELSE getDefaultVSGenerator(host, arg).outcome

\* C30: the two detector implementations (src/generator/vs-detector.ts and
\* src/unnamed/part_003) agree on the functions that take a version string:
\* for every string v, isValidVSVersion(v), getVSGeneratorByYear(v) and the
\* outcome of getDefaultVSGenerator(v), the generator returned or the error
\* thrown with its message, are the same in both.
C30_ModulesAgree ==
    (vsCall # None /\ vsCall.arg.given) =>
        vsOutcome = OutcomeIn(OtherModule(vsCall.module), vsCall.op, vsCall.arg, vsHost)

\* getDefaultVSGenerator("2026") of src/generator/vs-detector.ts has thrown
\* the error whose message lists 18, 2022, 2019, where that of
\* src/unnamed/part_003 returns "Visual Studio 18 2026"
C30_Witness ==
    /\ GaveVersionToGetDefault
    /\ vsCall.module = GeneratorModule
    /\ vsCall.arg.value = "2026"
    /\ vsOutcome = Threw(InvalidVersionError("2026", <<"18", "2022", "2019">>))
    /\ getDefaultVSGenerator(vsHost, vsCall.arg).outcome = Returned("Visual Studio 18 2026")

====
